---------------------------- MODULE Spec2Model ----------------------------
(***************************************************************************)
(* Model of zoom/phone.go: the endpoint methods of the phone sub-services. *)
(* Every endpoint method validates (three of them), shapes a path, calls   *)
(* client.request once and wraps its error.  Go strings are TLA+ strings;  *)
(* TLC evaluates Len, SubSeq and \o on them, so strings.Split and          *)
(* strings.TrimSpace are computed character by character.                  *)
(***************************************************************************)
EXTENDS Integers, Sequences, FiniteSets, TLC

VARIABLES
    availableSettingTypes,  \* the package-level slice of recognized setting names
    numPages,               \* the remote service: how many pages a list holds
    invocations,            \* endpoint method invocations so far
    requestCalls,           \* client.request calls so far
    last,                   \* the last invocation: method, arguments, what it returned
    cursor,                 \* a caller walking a list endpoint page by page
    service,                \* the service value the methods are called on
    goroutines              \* callers running endpoint methods concurrently

vars == <<availableSettingTypes, numPages, invocations, requestCalls, last, cursor,
          service, goroutines>>

---------------------------------------------------------------------------
(* Bounds of the model. *)

\* endpoint invocations in one behaviour
MaxCalls == 2
\* longest identifier collection a caller passes
MaxIDs == 32
\* pieces a settings filter is concatenated from
MaxPieces == 4
\* most pages the remote list holds
MaxPages == 3

\* the batch limit of the add/delete customized-numbers endpoints
BatchLimit == 30

---------------------------------------------------------------------------
(* Go values. *)

\* a nil pointer / nil interface argument
Nil == [nil |-> TRUE]

\* a nil *http.Response
NilRes == "nil"

\* a nil error
NoError == [type |-> "nil", msg |-> "", cause |-> [kind |-> "nil", canceled |-> FALSE, status |-> 0]]

\* the nil error of client.request
NilErr == [kind |-> "nil", canceled |-> FALSE, status |-> 0]

\* out == nil handed to client.request, and the nil typed output returned on failure
NoOut == [state |-> "nil", page |-> 0, next_page_token |-> ""]

\* out := &T{}
ZeroOut == [state |-> "zero", page |-> 0, next_page_token |-> ""]

---------------------------------------------------------------------------
(* strings *)

\* s[i] as a one-character string
Char(s, i) == SubSeq(s, i, i)

\* the characters strings.TrimSpace removes
WhiteSpace == {" ", "\t", "\n", "\r", "\f"}

\* strings.TrimSpace
TrimSpace(s) ==
    LET keep == {i \in 1..Len(s) : Char(s, i) \notin WhiteSpace}
    IN  IF keep = {} THEN ""
        ELSE LET first == CHOOSE i \in keep : \A j \in keep : i <= j
                 lastc == CHOOSE i \in keep : \A j \in keep : j <= i
             IN  SubSeq(s, first, lastc)

RECURSIVE Split(_, _)
\* strings.Split(s, sep) for a one-character sep
Split(s, sep) ==
    LET hits == {i \in 1..Len(s) : Char(s, i) = sep}
    IN  IF hits = {} THEN <<s>>
        ELSE LET i == CHOOSE h \in hits : \A k \in hits : h <= k
             IN  <<SubSeq(s, 1, i - 1)>> \o Split(SubSeq(s, i + 1, Len(s)), sep)

\* slices.Contains
Contains(list, v) == \E i \in 1..Len(list) : list[i] = v

\* whether a format string holds the verb %w
HasVerbW(format) == \E i \in 1..(Len(format) - 1) : SubSeq(format, i, i + 1) = "%w"

RECURSIVE Sprintf(_, _)
\* fmt.Sprintf for formats whose only verb is %s
Sprintf(format, args) ==
    LET hits == {i \in 1..(Len(format) - 1) : SubSeq(format, i, i + 1) = "%s"}
    IN  IF hits = {} \/ args = <<>> THEN format
        ELSE LET i == CHOOSE h \in hits : \A k \in hits : h <= k
             IN  SubSeq(format, 1, i - 1) \o args[1]
                   \o Sprintf(SubSeq(format, i + 2, Len(format)), Tail(args))

\* fmt.Errorf: with %w the result wraps its operand, otherwise it is a plain
\* error whose message is the formatted text
Errorf(format, args) ==
    IF HasVerbW(format)
    THEN [type |-> "wrapError", msg |-> format, cause |-> args[1]]
    ELSE [type |-> "errorString", msg |-> Sprintf(format, args), cause |-> NilErr]

---------------------------------------------------------------------------
(* The recognized setting names. *)

\* the initial value of the package-level slice
AvailableSettingTypes ==
    << "call_live_transcription",
       "local_survivability_mode",
       "external_calling_on_zoom_room_common_area",
       "select_outbound_caller_id",
       "personal_audio_library",
       "voicemail",
       "voicemail_transcription",
       "voicemail_notification_by_email",
       "shared_voicemail_notification_by_email",
       "restricted_call_hours",
       "allowed_call_locations",
       "check_voicemails_over_phone",
       "auto_call_recording",
       "ad_hoc_call_recording",
       "international_calling",
       "outbound_calling",
       "outbound_sms",
       "sms",
       "sms_etiquette_tool",
       "zoom_phone_on_mobile",
       "zoom_phone_on_pwa",
       "e2e_encryption",
       "call_handling_forwarding_to_other_users",
       "call_overflow",
       "call_transferring",
       "elevate_to_meeting",
       "call_park",
       "hand_off_to_room",
       "mobile_switch_to_carrier",
       "delegation",
       "audio_intercom",
       "block_calls_without_caller_id",
       "block_external_calls",
       "call_queue_opt_out_reason",
       "auto_delete_data_after_retention_duration",
       "auto_call_from_third_party_apps",
       "override_default_port",
       "peer_to_peer_media",
       "advanced_encryption",
       "display_call_feedback_survey",
       "block_list_for_inbound_calls_and_messaging",
       "block_calls_as_threat" >>

---------------------------------------------------------------------------
(* Query values and how client.request puts them on the wire. *)

\* the url tags with HolidayId sent under the key of CallForwardingId: a
\* variant used to show that C17_QueryRoundTripUpToAbsentGroup depends on
\* the tags naming a different key for each field
UrlTags_SharedKey(struct) ==
    CASE struct = "DeleteCustomizedNumbersRequest" ->
            << [field |-> "CustomizedIDs", name |-> "customized_ids", omitempty |-> FALSE, kind |-> "strings"] >>
      [] struct = "GetCustomizedNumbersRequest" ->
            << [field |-> "PaginationOptions", name |-> "", omitempty |-> TRUE, kind |-> "embedded"] >>
      [] struct = "AccountSettingsQuery" ->
            << [field |-> "SettingTypes", name |-> "setting_type", omitempty |-> FALSE, kind |-> "string"] >>
      [] struct = "ListAlertSettingsRequest" ->
            << [field |-> "PaginationOptions", name |-> "", omitempty |-> FALSE, kind |-> "embedded"],
               [field |-> "Module", name |-> "module", omitempty |-> FALSE, kind |-> "int"],
               [field |-> "Rule", name |-> "rule", omitempty |-> FALSE, kind |-> "int"],
               [field |-> "Status", name |-> "status", omitempty |-> FALSE, kind |-> "int"] >>
      [] struct = "DeletePolicySubSettingQuery" ->
            << [field |-> "SharedIDs", name |-> "shared_ids", omitempty |-> FALSE, kind |-> "strings"] >>
      [] struct = "ListAutoReceptionistsRequest" ->
            << [field |-> "PaginationOptions", name |-> "", omitempty |-> FALSE, kind |-> "embedded"] >>
      [] struct = "ListBillingAccountsRequest" ->
            << [field |-> "SiteID", name |-> "site_id", omitempty |-> TRUE, kind |-> "string"] >>
      [] struct = "ListBlockedListRequest" ->
            << [field |-> "PaginationOptions", name |-> "", omitempty |-> FALSE, kind |-> "embedded"] >>
      [] struct = "DeleteCallHandlingQuery" ->
            << [field |-> "CallForwardingId", name |-> "call_forwarding_id", omitempty |-> TRUE, kind |-> "string"],
               [field |-> "HolidayId", name |-> "call_forwarding_id", omitempty |-> TRUE, kind |-> "string"] >>

\* the url tags of the query types, field by field in declaration order: the
\* Go field, the name the tag gives ("" when it gives none), whether the tag
\* says omitempty, and the kind of the field
UrlTags(struct) ==
    CASE struct = "DeleteCustomizedNumbersRequest" ->
            << [field |-> "CustomizedIDs", name |-> "customized_ids", omitempty |-> FALSE, kind |-> "strings"] >>
      [] struct = "GetCustomizedNumbersRequest" ->
            << [field |-> "PaginationOptions", name |-> "", omitempty |-> TRUE, kind |-> "embedded"] >>
      [] struct = "AccountSettingsQuery" ->
            << [field |-> "SettingTypes", name |-> "setting_type", omitempty |-> FALSE, kind |-> "string"] >>
      [] struct = "ListAlertSettingsRequest" ->
            << [field |-> "PaginationOptions", name |-> "", omitempty |-> FALSE, kind |-> "embedded"],
               [field |-> "Module", name |-> "module", omitempty |-> FALSE, kind |-> "int"],
               [field |-> "Rule", name |-> "rule", omitempty |-> FALSE, kind |-> "int"],
               [field |-> "Status", name |-> "status", omitempty |-> FALSE, kind |-> "int"] >>
      [] struct = "DeletePolicySubSettingQuery" ->
            << [field |-> "SharedIDs", name |-> "shared_ids", omitempty |-> FALSE, kind |-> "strings"] >>
      [] struct = "ListAutoReceptionistsRequest" ->
            << [field |-> "PaginationOptions", name |-> "", omitempty |-> FALSE, kind |-> "embedded"] >>
      [] struct = "ListBillingAccountsRequest" ->
            << [field |-> "SiteID", name |-> "site_id", omitempty |-> TRUE, kind |-> "string"] >>
      [] struct = "ListBlockedListRequest" ->
            << [field |-> "PaginationOptions", name |-> "", omitempty |-> FALSE, kind |-> "embedded"] >>
      [] struct = "DeleteCallHandlingQuery" ->
            << [field |-> "CallForwardingId", name |-> "call_forwarding_id", omitempty |-> TRUE, kind |-> "string"],
               [field |-> "HolidayId", name |-> "holiday_id", omitempty |-> TRUE, kind |-> "string"] >>

\* the url tags of the fields of PaginationOptions: all optional, the zero
\* value meaning the server's default
PaginationOptionsTags ==
    << [field |-> "PageSize", name |-> "page_size", omitempty |-> TRUE, kind |-> "int"],
       [field |-> "NextPageToken", name |-> "next_page_token", omitempty |-> TRUE, kind |-> "string"],
       [field |-> "PageNumber", name |-> "page_number", omitempty |-> TRUE, kind |-> "int"] >>

\* the key a field is sent under: the tag's name, the field's name without one
KeyOf(tag) == IF tag.name = "" THEN tag.field ELSE tag.name

\* whether a field holds the zero value of its kind
IsEmptyValue(kind, x) ==
    CASE kind = "int" -> x = 0
      [] kind = "string" -> x = ""
      [] kind = "strings" -> x = <<>>
      [] kind = "embedded" -> x = Nil

\* a scalar as it is written into the query
ValueString(kind, x) == IF kind = "int" THEN ToString(x) ELSE x

\* whether a field is an embedded group to flatten: an anonymous struct
\* pointer with no name in its tag that is not nil
IsEmbedded(tag, x) == tag.kind = "embedded" /\ tag.name = "" /\ x # Nil

\* the key=value pairs one field contributes: none when it is empty and tagged
\* omitempty, one pair per element for a collection, an empty value for a nil
\* pointer, one pair otherwise
EncodeField(tag, x) ==
    IF tag.omitempty /\ IsEmptyValue(tag.kind, x) THEN <<>>
    ELSE IF tag.kind = "strings"
    THEN [i \in 1..Len(x) |-> [key |-> KeyOf(tag), value |-> x[i]]]
    ELSE IF tag.kind = "embedded"
    THEN <<[key |-> KeyOf(tag), value |-> ""]>>
    ELSE <<[key |-> KeyOf(tag), value |-> ValueString(tag.kind, x)]>>

RECURSIVE ReflectFields(_, _, _)
\* the pairs of the fields tags[i..] of v, embedded groups left aside
ReflectFields(tags, v, i) ==
    IF i > Len(tags) THEN <<>>
    ELSE (IF IsEmbedded(tags[i], v[tags[i].field]) THEN <<>>
          ELSE EncodeField(tags[i], v[tags[i].field]))
         \o ReflectFields(tags, v, i + 1)

RECURSIVE ReflectEmbedded(_, _, _)
\* the pairs of the embedded groups among tags[i..] of v, each flattened
\* under its own fields' keys
ReflectEmbedded(tags, v, i) ==
    IF i > Len(tags) THEN <<>>
    ELSE (IF IsEmbedded(tags[i], v[tags[i].field])
          THEN ReflectFields(PaginationOptionsTags, v[tags[i].field], 1)
          ELSE <<>>)
         \o ReflectEmbedded(tags, v, i + 1)

\* the key=value pairs of a query value: nothing for a nil query, otherwise
\* the value's own fields and then its embedded groups
QueryValues(query) ==
    IF query = Nil THEN <<>>
    ELSE ReflectFields(UrlTags(query.struct), query, 1)
           \o ReflectEmbedded(UrlTags(query.struct), query, 1)

\* how one character is escaped in a query component
EscapeChar(c) ==
    CASE c = " " -> "+"
      [] c = "%" -> "%25"
      [] c = "&" -> "%26"
      [] c = "+" -> "%2B"
      [] c = "," -> "%2C"
      [] c = "/" -> "%2F"
      [] c = "=" -> "%3D"
      [] c = "?" -> "%3F"
      [] OTHER -> c

RECURSIVE QueryEscape(_)
\* url.QueryEscape
QueryEscape(s) ==
    IF s = "" THEN ""
    ELSE EscapeChar(Char(s, 1)) \o QueryEscape(SubSeq(s, 2, Len(s)))

\* the character an escape %XX stands for
UnescapeHex(h) ==
    CASE h = "25" -> "%"
      [] h = "26" -> "&"
      [] h = "2B" -> "+"
      [] h = "2C" -> ","
      [] h = "2F" -> "/"
      [] h = "3D" -> "="
      [] h = "3F" -> "?"
      [] OTHER -> "%" \o h

RECURSIVE QueryUnescape(_)
\* url.QueryUnescape
QueryUnescape(s) ==
    IF s = "" THEN ""
    ELSE IF Char(s, 1) = "+" THEN " " \o QueryUnescape(SubSeq(s, 2, Len(s)))
    ELSE IF Char(s, 1) = "%" /\ Len(s) >= 3
    THEN UnescapeHex(SubSeq(s, 2, 3)) \o QueryUnescape(SubSeq(s, 4, Len(s)))
    ELSE Char(s, 1) \o QueryUnescape(SubSeq(s, 2, Len(s)))

RECURSIVE EncodeValues(_)
\* the query string of key=value pairs (pairs are written in the order they
\* were added; the order of different keys carries no meaning)
EncodeValues(pairs) ==
    IF pairs = <<>> THEN ""
    ELSE QueryEscape(pairs[1].key) \o "=" \o QueryEscape(pairs[1].value)
           \o (IF Len(pairs) > 1 THEN "&" ELSE "")
           \o EncodeValues(Tail(pairs))

\* url.ParseQuery: the key=value pairs of a query string
ParseQuery(raw) ==
    IF raw = "" THEN <<>>
    ELSE LET parts == Split(raw, "&")
         IN  [i \in 1..Len(parts) |->
                LET kv == Split(parts[i], "=")
                IN  [key |-> QueryUnescape(kv[1]),
                     value |-> QueryUnescape(IF Len(kv) > 1 THEN kv[2] ELSE "")]]

\* the values a query string holds under one key, in order
ValuesOf(pairs, key) ==
    LET hit == SelectSeq(pairs, LAMBDA p : p.key = key)
    IN  [i \in 1..Len(hit) |-> hit[i].value]

\* the value of a decimal digit
Digit(c) == CHOOSE d \in 0..9 : ToString(d) = c

RECURSIVE Atoi(_)
\* strconv.Atoi on a string of digits
Atoi(s) ==
    IF s = "" THEN 0
    ELSE Atoi(SubSeq(s, 1, Len(s) - 1)) * 10 + Digit(Char(s, Len(s)))

\* a field read back from the key=value pairs under the key its tag names:
\* the zero value when the key is missing
DecodeField(tag, pairs) ==
    LET vals == ValuesOf(pairs, KeyOf(tag))
    IN  CASE tag.kind = "strings" -> vals
          [] tag.kind = "string" -> IF vals = <<>> THEN "" ELSE vals[1]
          [] tag.kind = "int" -> IF vals = <<>> THEN 0 ELSE Atoi(vals[1])

\* a record of the fields of tags read back from the pairs
DecodeFields(tags, pairs) ==
    [f \in {tags[i].field : i \in 1..Len(tags)} |->
        DecodeField(tags[CHOOSE i \in 1..Len(tags) : tags[i].field = f], pairs)]

\* the embedded PaginationOptions read back: absent when the query string
\* holds none of its keys
DecodeGroup(pairs) ==
    IF \A i \in 1..Len(PaginationOptionsTags) :
           ValuesOf(pairs, KeyOf(PaginationOptionsTags[i])) = <<>>
    THEN Nil
    ELSE DecodeFields(PaginationOptionsTags, pairs)

\* a query value of type struct read back from key=value pairs with the
\* field-name mapping of the type's url tags
DecodeQuery(struct, pairs) ==
    LET tags == UrlTags(struct)
    IN  [f \in {"struct"} \cup {tags[i].field : i \in 1..Len(tags)} |->
            IF f = "struct" THEN struct
            ELSE LET tag == tags[CHOOSE i \in 1..Len(tags) : tags[i].field = f]
                 IN  IF tag.kind = "embedded" THEN DecodeGroup(pairs)
                     ELSE DecodeField(tag, pairs)]

---------------------------------------------------------------------------
(* The account settings response and how its body is decoded. *)

\* the json tags of the setting fields of AccountSettingsResponse, in
\* declaration order: the Go field and the response key its tag names
AccountSettingsJSONTags ==
    << [field |-> "AdHocCallRecording", key |-> "ad_hoc_call_recording"],
       [field |-> "AdavancedEncryption", key |-> "advanced_encryption"],
       [field |-> "AllowedCallLocations", key |-> "allowed_call_locations"],
       [field |-> "AudioIntercom", key |-> "audio_intercom"],
       [field |-> "AutoCallFromThirdPartyApps", key |-> "auto_call_from_third_party_apps"],
       [field |-> "AutoCallRecording", key |-> "auto_call_recording"],
       [field |-> "AutoDeleteDataAfterRetentionDuration", key |-> "auto_delete_data_after_retention_duration"],
       [field |-> "BlockCallsAsThreat", key |-> "block_calls_as_threat"],
       [field |-> "BlockCallsWithoutCallerID", key |-> "block_calls_without_caller_id"],
       [field |-> "BlockExternalCalls", key |-> "block_external_calls"],
       [field |-> "BlockListForInboundCallsAndMessaging", key |-> "block_list_for_inbound_calls_and_messaging"],
       [field |-> "CallHandlingForwardingToOtherUsers", key |-> "call_handling_forwarding_to_other_users"],
       [field |-> "CallLiveTranscription", key |-> "call_live_transcription"],
       [field |-> "CallOverflow", key |-> "call_overflow"],
       [field |-> "CallPark", key |-> "call_park"],
       [field |-> "CallQueueOptOutReason", key |-> "call_queue_opt_out_reason"],
       [field |-> "CallTransferring", key |-> "call_transferring"],
       [field |-> "CheckVoicemailsOverPhone", key |-> "check_voicemails_over_phone"],
       [field |-> "Delegation", key |-> "delegation"],
       [field |-> "DisplayCallFeedbackSurvey", key |-> "display_call_feedback_survey"],
       [field |-> "E2EEncryption", key |-> "e2e_encryption"],
       [field |-> "ElevateToMeeting", key |-> "elevate_to_meeting"],
       [field |-> "ExternalCallingOnZoomRoomCommonArea", key |-> "external_calling_on_zoom_room_common_area"],
       [field |-> "HandOffToRoom", key |-> "hand_off_to_room"],
       [field |-> "InternationalCalling", key |-> "international_calling"],
       [field |-> "LocalSurvivabilityMode", key |-> "local_survivability_mode"],
       [field |-> "MobileSwitchToCarrier", key |-> "mobile_switch_to_carrier"],
       [field |-> "OutboundCalling", key |-> "outbound_calling"],
       [field |-> "OutboundSMS", key |-> "outbound_sms"],
       [field |-> "OverrideDefaultPort", key |-> "override_default_port"],
       [field |-> "PeerToPeerMedia", key |-> "peer_to_peer_media"],
       [field |-> "PersonalAudioLibrary", key |-> "restricted_call_hours"],
       [field |-> "RestrictedCallHours", key |-> "personal_audio_library"] >>

\* a setting field no response key has filled
ZeroSetting == [setting |-> "", enable |-> FALSE]

\* the body the service answers a settings read with: one object per
\* setting the filter asks for, under the setting's name
AccountSettingsBody(query) ==
    LET entries == Split(query.SettingTypes, ",")
    IN  [k \in {TrimSpace(entries[i]) : i \in 1..Len(entries)} |-> [setting |-> k, enable |-> TRUE]]

\* json.Unmarshal of a body into AccountSettingsResponse: each field takes the
\* value under the key its tag names and stays zero when the body lacks it
UnmarshalAccountSettings(body) ==
    [f \in {AccountSettingsJSONTags[i].field : i \in 1..Len(AccountSettingsJSONTags)} |->
        LET key == AccountSettingsJSONTags[
                       CHOOSE i \in 1..Len(AccountSettingsJSONTags) :
                           AccountSettingsJSONTags[i].field = f].key
        IN  IF key \in DOMAIN body THEN body[key] ELSE ZeroSetting]

---------------------------------------------------------------------------
(* The remote service and client.request. *)

\* the token that asks for page k; the first page has the empty token
PageToken(k) == IF k = 1 THEN "" ELSE "tok" \o ToString(k)

\* the page a token asks for, 0 when the service does not know the token
PageOf(token) ==
    IF \E k \in 1..numPages : PageToken(k) = token
    THEN CHOOSE k \in 1..numPages : PageToken(k) = token
    ELSE 0

\* the page token a query value carries once encoded: none when the query or
\* its embedded PaginationOptions is nil
PageTokenOf(query) ==
    IF query = Nil \/ "PaginationOptions" \notin DOMAIN query THEN ""
    ELSE IF query.PaginationOptions = Nil THEN ""
    ELSE query.PaginationOptions.NextPageToken

\* the GET paths whose response embeds PaginationResponse
PagedPaths ==
    { "/phone/outbound_caller_id/customized_numbers", "/phone/alert_settings",
      "/phone/auto_receptionists", "/phone/blocked_list" }

\* what the network and the remote service do to one call
Nets == {"ok", "fail", "status", "badbody"}

\* a caller's context (live, or canceled while the call is in flight) with
\* the network's behaviour
Envs == {[ctx |-> "canceled", net |-> "ok"]} \cup {[ctx |-> "live", net |-> n] : n \in Nets}

\* client.request(ctx, method, path, query, body, out): one outbound call.
\* Returns the response handle, the error, out as the call left it, and the
\* call it issued, with the query string the query value was encoded to.
request(ctx, method, path, query, body, out, net) ==
    LET call == [method |-> method, path |-> path, query |-> query, body |-> body,
                 rawQuery |-> EncodeValues(QueryValues(query))]
        paged == method = "GET" /\ path \in PagedPaths
        page == IF paged THEN PageOf(PageTokenOf(query)) ELSE 0
    IN  IF ctx = "canceled"
        THEN [res |-> NilRes, out |-> out, call |-> call,
              err |-> [kind |-> "TransportError", canceled |-> TRUE, status |-> 0]]
        ELSE IF net = "fail"
        THEN [res |-> NilRes, out |-> out, call |-> call,
              err |-> [kind |-> "TransportError", canceled |-> FALSE, status |-> 0]]
        ELSE IF net = "status" \/ (paged /\ page = 0)
        THEN [res |-> "http400", out |-> out, call |-> call,
              err |-> [kind |-> "APIError", canceled |-> FALSE, status |-> 400]]
        ELSE IF net = "badbody" /\ out # NoOut
        THEN [res |-> "http200", out |-> [out EXCEPT !.state = "partial"], call |-> call,
              err |-> [kind |-> "DecodeError", canceled |-> FALSE, status |-> 200]]
        ELSE [res |-> "http200", call |-> call, err |-> NilErr,
              out |-> IF out = NoOut THEN NoOut
                      ELSE IF method = "GET" /\ path = "/phone/account_settings"
                      THEN [state |-> "decoded", page |-> page, next_page_token |-> "",
                            fields |-> UnmarshalAccountSettings(AccountSettingsBody(query))]
                      ELSE [state |-> "decoded", page |-> page,
                            next_page_token |->
                                IF paged /\ page < numPages THEN PageToken(page + 1) ELSE ""]]

---------------------------------------------------------------------------
(* How an endpoint method ends. *)

\* return res, err  (methods with no typed output)
Return2(res, err, calls) ==
    [out |-> NoOut, res |-> res, err |-> err, panicked |-> FALSE, calls |-> calls, evaluated |-> 0]

\* return out, res, err
Return3(out, res, err, calls) ==
    [out |-> out, res |-> res, err |-> err, panicked |-> FALSE, calls |-> calls, evaluated |-> 0]

\* a nil pointer dereference: the method returns nothing
Panic ==
    [out |-> NoOut, res |-> NilRes, err |-> NoError, panicked |-> TRUE, calls |-> <<>>, evaluated |-> 0]

---------------------------------------------------------------------------
(* The endpoint methods. *)

\* AddCustomizedNumbers with the size check off by one (> 31): a variant
\* used to show that C1_OversizedBatchRejected depends on the limit
AddCustomizedNumbers_OffByOne(ctx, req, net) ==
    IF req = Nil THEN Panic
    ELSE IF Len(req.PhoneNumberIDs) > 31
    THEN Return2(NilRes, Errorf("Error: cannot add more than 30 phone numbers ids at once", <<>>), <<>>)
    ELSE
    LET r == request(ctx, "POST", "/phone/outbound_caller_id/customized_numbers", Nil, req, NoOut, net)
    IN  IF r.err # NilErr
        THEN Return2(r.res, Errorf("Error making request: %w", <<r.err>>), <<r.call>>)
        ELSE Return2(r.res, NoError, <<r.call>>)

\* AddCustomizedNumbers guarding the request pointer before reading it
AddCustomizedNumbers_NilChecked(ctx, req, net) ==
    IF req = Nil
    THEN Return2(NilRes, Errorf("Error: request is required", <<>>), <<>>)
    ELSE IF Len(req.PhoneNumberIDs) > 30
    THEN Return2(NilRes, Errorf("Error: cannot add more than 30 phone numbers ids at once", <<>>), <<>>)
    ELSE
    LET r == request(ctx, "POST", "/phone/outbound_caller_id/customized_numbers", Nil, req, NoOut, net)
    IN  IF r.err # NilErr
        THEN Return2(r.res, Errorf("Error making request: %w", <<r.err>>), <<r.call>>)
        ELSE Return2(r.res, NoError, <<r.call>>)

\* PhoneAccountsService.AddCustomizedNumbers
AddCustomizedNumbers(ctx, req, net) ==
    IF req = Nil THEN Panic
    ELSE IF Len(req.PhoneNumberIDs) > 30
    THEN Return2(NilRes, Errorf("Error: cannot add more than 30 phone numbers ids at once", <<>>), <<>>)
    ELSE
    LET r == request(ctx, "POST", "/phone/outbound_caller_id/customized_numbers", Nil, req, NoOut, net)
    IN  IF r.err # NilErr
        THEN Return2(r.res, Errorf("Error making request: %w", <<r.err>>), <<r.call>>)
        ELSE Return2(r.res, NoError, <<r.call>>)

\* DeleteCustomizedNumbers with the size check written >= 30: a variant
\* used to show that C4_BatchWithinLimitDispatched depends on the limit
DeleteCustomizedNumbers_RejectsThirty(ctx, req, net) ==
    IF req = Nil THEN Panic
    ELSE IF Len(req.CustomizedIDs) >= 30
    THEN Return2(NilRes, Errorf("Error: cannot delete more than 30 customized ids at once", <<>>), <<>>)
    ELSE
    LET r == request(ctx, "DELETE", "/phone/outbound_caller_id/customized_numbers", req, Nil, NoOut, net)
    IN  IF r.err # NilErr
        THEN Return2(r.res, Errorf("Error making request: %w", <<r.err>>), <<r.call>>)
        ELSE Return2(r.res, NoError, <<r.call>>)

\* PhoneAccountsService.DeleteCustomizedNumbers
DeleteCustomizedNumbers(ctx, req, net) ==
    IF req = Nil THEN Panic
    ELSE IF Len(req.CustomizedIDs) > 30
    THEN Return2(NilRes, Errorf("Error: cannot delete more than 30 customized ids at once", <<>>), <<>>)
    ELSE
    LET r == request(ctx, "DELETE", "/phone/outbound_caller_id/customized_numbers", req, Nil, NoOut, net)
    IN  IF r.err # NilErr
        THEN Return2(r.res, Errorf("Error making request: %w", <<r.err>>), <<r.call>>)
        ELSE Return2(r.res, NoError, <<r.call>>)

\* the validation loop looking at the first entry only: a variant used to
\* show that C2_FilterMembershipDecidesDispatch depends on every entry being checked
SettingTypesLoop_FirstOnly(settings, i) ==
    LET setting == TrimSpace(settings[1])
    IN  IF ~Contains(availableSettingTypes, setting)
        THEN [err |-> Errorf("Error: invalid setting type '%s'", <<setting>>), evaluated |-> 1]
        ELSE [err |-> NoError, evaluated |-> 1]

\* the validation loop running to the end and reporting the last bad entry:
\* a variant used to show that C7_FirstInvalidEntryReported depends on the
\* early return
SettingTypesLoop_ReportsLast(settings, i) ==
    LET bad == {k \in i..Len(settings) : ~Contains(availableSettingTypes, TrimSpace(settings[k]))}
    IN  IF bad = {} THEN [err |-> NoError, evaluated |-> Len(settings)]
        ELSE LET k == CHOOSE b \in bad : \A c \in bad : c <= b
             IN  [err |-> Errorf("Error: invalid setting type '%s'", <<TrimSpace(settings[k])>>),
                  evaluated |-> Len(settings)]

RECURSIVE SettingTypesLoop_NoTrim(_, _)
\* the validation loop without strings.TrimSpace: a variant used to show
\* that C8_TrimmedCaseSensitiveMembership depends on the trimming
SettingTypesLoop_NoTrim(settings, i) ==
    IF i > Len(settings) THEN [err |-> NoError, evaluated |-> Len(settings)]
    ELSE LET setting == settings[i]
         IN  IF ~Contains(availableSettingTypes, setting)
             THEN [err |-> Errorf("Error: invalid setting type '%s'", <<setting>>), evaluated |-> i]
             ELSE SettingTypesLoop_NoTrim(settings, i + 1)

RECURSIVE SettingTypesLoop_SkipsEmpty(_, _)
\* the validation loop passing over entries that are empty once trimmed
SettingTypesLoop_SkipsEmpty(settings, i) ==
    IF i > Len(settings) THEN [err |-> NoError, evaluated |-> Len(settings)]
    ELSE LET setting == TrimSpace(settings[i])
         IN  IF setting # "" /\ ~Contains(availableSettingTypes, setting)
             THEN [err |-> Errorf("Error: invalid setting type '%s'", <<setting>>), evaluated |-> i]
             ELSE SettingTypesLoop_SkipsEmpty(settings, i + 1)

RECURSIVE SettingTypesLoop(_, _)
\* the validation loop of GetAccountSettings from entry i on: the error it
\* returns (if any) and how many entries it looked at
SettingTypesLoop(settings, i) ==
    IF i > Len(settings) THEN [err |-> NoError, evaluated |-> Len(settings)]
    ELSE LET setting == TrimSpace(settings[i])
         IN  IF ~Contains(availableSettingTypes, setting)
             THEN [err |-> Errorf("Error: invalid setting type '%s'", <<setting>>), evaluated |-> i]
             ELSE SettingTypesLoop(settings, i + 1)

\* GetAccountSettings sending the filter with its outer white space trimmed
GetAccountSettings_SendsTrimmed(ctx, query, net) ==
    IF query = Nil THEN Panic
    ELSE
    LET loop == SettingTypesLoop(Split(query.SettingTypes, ","), 1)
    IN  IF loop.err # NoError
        THEN [Return3(NoOut, NilRes, loop.err, <<>>) EXCEPT !.evaluated = loop.evaluated]
        ELSE
        LET r == request(ctx, "GET", "/phone/account_settings",
                         [query EXCEPT !.SettingTypes = TrimSpace(query.SettingTypes)], Nil, ZeroOut, net)
        IN  IF r.err # NilErr
            THEN [Return3(NoOut, r.res, Errorf("Error making request: %w", <<r.err>>), <<r.call>>)
                    EXCEPT !.evaluated = loop.evaluated]
            ELSE [Return3(r.out, r.res, NoError, <<r.call>>) EXCEPT !.evaluated = loop.evaluated]

\* PhoneAccountsService.GetAccountSettings
GetAccountSettings(ctx, query, net) ==
    IF query = Nil THEN Panic
    ELSE
    LET loop == SettingTypesLoop(Split(query.SettingTypes, ","), 1)
    IN  IF loop.err # NoError
        THEN [Return3(NoOut, NilRes, loop.err, <<>>) EXCEPT !.evaluated = loop.evaluated]
        ELSE
        LET r == request(ctx, "GET", "/phone/account_settings", query, Nil, ZeroOut, net)
        IN  IF r.err # NilErr
            THEN [Return3(NoOut, r.res, Errorf("Error making request: %w", <<r.err>>), <<r.call>>)
                    EXCEPT !.evaluated = loop.evaluated]
            ELSE [Return3(r.out, r.res, NoError, <<r.call>>) EXCEPT !.evaluated = loop.evaluated]

\* GetCustomizedNumbers returning out beside the error: a variant used to
\* show that C5_NoOutputWithError depends on the nil it returns
GetCustomizedNumbers_ReturnsOutOnError(ctx, req, net) ==
    LET r == request(ctx, "GET", "/phone/outbound_caller_id/customized_numbers", req, Nil, ZeroOut, net)
    IN  IF r.err # NilErr
        THEN Return3(r.out, r.res, Errorf("Error making request: %w", <<r.err>>), <<r.call>>)
        ELSE Return3(r.out, r.res, NoError, <<r.call>>)

\* PhoneAccountsService.GetCustomizedNumbers
GetCustomizedNumbers(ctx, req, net) ==
    LET r == request(ctx, "GET", "/phone/outbound_caller_id/customized_numbers", req, Nil, ZeroOut, net)
    IN  IF r.err # NilErr
        THEN Return3(NoOut, r.res, Errorf("Error making request: %w", <<r.err>>), <<r.call>>)
        ELSE Return3(r.out, r.res, NoError, <<r.call>>)

\* CreateAlert calling client.request a second time when the first call
\* fails: a variant used to show that C3_OneRequestPerInvocation depends on
\* the single call
CreateAlert_Retries(ctx, req, net) ==
    LET r == request(ctx, "POST", "/phone/alert_settings", Nil, req, ZeroOut, net)
    IN  IF r.err # NilErr
        THEN LET again == request(ctx, "POST", "/phone/alert_settings", Nil, req, ZeroOut, net)
             IN  IF again.err # NilErr
                 THEN Return3(NoOut, again.res, Errorf("Error making request: %w", <<again.err>>),
                              <<r.call, again.call>>)
                 ELSE Return3(again.out, again.res, NoError, <<r.call, again.call>>)
        ELSE Return3(r.out, r.res, NoError, <<r.call>>)

\* PhoneAlertsService.CreateAlert
CreateAlert(ctx, req, net) ==
    LET r == request(ctx, "POST", "/phone/alert_settings", Nil, req, ZeroOut, net)
    IN  IF r.err # NilErr
        THEN Return3(NoOut, r.res, Errorf("Error making request: %w", <<r.err>>), <<r.call>>)
        ELSE Return3(r.out, r.res, NoError, <<r.call>>)

\* DeleteAlert formatting the error with %v instead of wrapping it with %w:
\* a variant used to show that C10_CancellationDistinguished depends on the
\* wrapped cause
DeleteAlert_DropsCause(ctx, req, net) ==
    IF req = Nil THEN Panic
    ELSE
    LET r == request(ctx, "DELETE", Sprintf("/phone/alert_settings/%s", <<req.AlertSettingID>>), Nil, Nil, NoOut, net)
    IN  IF r.err # NilErr
        THEN Return2(r.res, Errorf("Error making request: %v", <<r.err>>), <<r.call>>)
        ELSE Return2(r.res, NoError, <<r.call>>)

\* PhoneAlertsService.DeleteAlert
DeleteAlert(ctx, req, net) ==
    IF req = Nil THEN Panic
    ELSE
    LET r == request(ctx, "DELETE", Sprintf("/phone/alert_settings/%s", <<req.AlertSettingID>>), Nil, Nil, NoOut, net)
    IN  IF r.err # NilErr
        THEN Return2(r.res, Errorf("Error making request: %w", <<r.err>>), <<r.call>>)
        ELSE Return2(r.res, NoError, <<r.call>>)

\* PhoneAlertsService.GetAlertSettingsDetails
GetAlertSettingsDetails(ctx, req, net) ==
    IF req = Nil THEN Panic
    ELSE
    LET r == request(ctx, "GET", Sprintf("/phone/alert_settings/%s", <<req.AlertSettingID>>), Nil, Nil, ZeroOut, net)
    IN  IF r.err # NilErr
        THEN Return3(NoOut, r.res, Errorf("Error making request: %w", <<r.err>>), <<r.call>>)
        ELSE Return3(r.out, r.res, NoError, <<r.call>>)

\* PhoneAlertsService.ListAlertSettings
ListAlertSettings(ctx, req, net) ==
    LET r == request(ctx, "GET", "/phone/alert_settings", req, Nil, ZeroOut, net)
    IN  IF r.err # NilErr
        THEN Return3(NoOut, r.res, Errorf("Error making request: %w", <<r.err>>), <<r.call>>)
        ELSE Return3(r.out, r.res, NoError, <<r.call>>)

\* PhoneAlertsService.UpdateAlertSettings
UpdateAlertSettings(ctx, req, body, net) ==
    IF req = Nil THEN Panic
    ELSE
    LET r == request(ctx, "PATCH", Sprintf("/phone/alert_settings/%s", <<req.AlertSettingsID>>), Nil, body, NoOut, net)
    IN  IF r.err # NilErr
        THEN Return2(r.res, Errorf("Error making request: %w", <<r.err>>), <<r.call>>)
        ELSE Return2(r.res, NoError, <<r.call>>)

\* PhoneAudioLibraryService.AddAudioItem
AddAudioItem(ctx, pathParam, req, net) ==
    IF pathParam = Nil THEN Panic
    ELSE
    LET r == request(ctx, "POST", Sprintf("/phone/users/%s/audios", <<pathParam.UserId>>), Nil, req, ZeroOut, net)
    IN  IF r.err # NilErr
        THEN Return3(NoOut, r.res, Errorf("Error making request: %w", <<r.err>>), <<r.call>>)
        ELSE Return3(r.out, r.res, NoError, <<r.call>>)

\* PhoneAudioLibraryService.AddAudioItems
AddAudioItems(ctx, pathParam, req, net) ==
    IF pathParam = Nil THEN Panic
    ELSE
    LET r == request(ctx, "POST", Sprintf("/phone/users/%s/audios/batch", <<pathParam.UserId>>), Nil, req, ZeroOut, net)
    IN  IF r.err # NilErr
        THEN Return3(NoOut, r.res, Errorf("Error making request: %w", <<r.err>>), <<r.call>>)
        ELSE Return3(r.out, r.res, NoError, <<r.call>>)

\* PhoneAudioLibraryService.DeleteAudioItem
DeleteAudioItem(ctx, pathParam, net) ==
    IF pathParam = Nil THEN Panic
    ELSE
    LET r == request(ctx, "DELETE", Sprintf("/phone/audios/%s", <<pathParam.AudioID>>), Nil, Nil, NoOut, net)
    IN  IF r.err # NilErr
        THEN Return2(r.res, Errorf("Error making request: %w", <<r.err>>), <<r.call>>)
        ELSE Return2(r.res, NoError, <<r.call>>)

\* PhoneAudioLibraryService.GetAudioItem
GetAudioItem(ctx, pathParam, net) ==
    IF pathParam = Nil THEN Panic
    ELSE
    LET r == request(ctx, "GET", Sprintf("/phone/audios/%s", <<pathParam.AudioID>>), Nil, Nil, ZeroOut, net)
    IN  IF r.err # NilErr
        THEN Return3(NoOut, r.res, Errorf("Error making request: %w", <<r.err>>), <<r.call>>)
        ELSE Return3(r.out, r.res, NoError, <<r.call>>)

\* PhoneAudioLibraryService.ListAudioItems
ListAudioItems(ctx, pathParam, net) ==
    IF pathParam = Nil THEN Panic
    ELSE
    LET r == request(ctx, "GET", Sprintf("/phone/users/%s/audios", <<pathParam.UserId>>), Nil, Nil, ZeroOut, net)
    IN  IF r.err # NilErr
        THEN Return3(NoOut, r.res, Errorf("Error making request: %w", <<r.err>>), <<r.call>>)
        ELSE Return3(r.out, r.res, NoError, <<r.call>>)

\* PhoneAudioLibraryService.UpdateAudioItem
UpdateAudioItem(ctx, pathParam, req, net) ==
    IF pathParam = Nil THEN Panic
    ELSE
    LET r == request(ctx, "PATCH", Sprintf("/phone/audios/%s", <<pathParam.AudioID>>), Nil, req, NoOut, net)
    IN  IF r.err # NilErr
        THEN Return2(r.res, Errorf("Error making request: %w", <<r.err>>), <<r.call>>)
        ELSE Return2(r.res, NoError, <<r.call>>)

\* PhoneAutoReceptionistsService.AddPolicySubSetting
AddPolicySubSetting(ctx, pathParams, body, net) ==
    IF pathParams = Nil THEN Panic
    ELSE
    LET r == request(ctx, "POST", Sprintf("/phone/auto_receptionists/%s/policies/%s", <<pathParams.autoReceptionistId, pathParams.policyType>>), Nil, body, ZeroOut, net)
    IN  IF r.err # NilErr
        THEN Return3(NoOut, r.res, Errorf("Error making request: %w", <<r.err>>), <<r.call>>)
        ELSE Return3(r.out, r.res, NoError, <<r.call>>)

\* PhoneAutoReceptionistsService.AddAutoReceptionist
AddAutoReceptionist(ctx, req, net) ==
    LET r == request(ctx, "POST", "/phone/auto_receptionists", Nil, req, ZeroOut, net)
    IN  IF r.err # NilErr
        THEN Return3(NoOut, r.res, Errorf("Error making request: %w", <<r.err>>), <<r.call>>)
        ELSE Return3(r.out, r.res, NoError, <<r.call>>)

\* PhoneAutoReceptionistsService.AssignPhoneNumbers
AssignPhoneNumbers(ctx, pathParams, body, net) ==
    IF pathParams = Nil THEN Panic
    ELSE
    LET r == request(ctx, "POST", Sprintf("/phone/auto_receptionists/%s/phone_numbers", <<pathParams.autoReceptionistId>>), Nil, body, NoOut, net)
    IN  IF r.err # NilErr
        THEN Return2(r.res, Errorf("Error making request: %w", <<r.err>>), <<r.call>>)
        ELSE Return2(r.res, NoError, <<r.call>>)

\* PhoneAutoReceptionistsService.DeleteAutoReceptionist
DeleteAutoReceptionist(ctx, pathParams, net) ==
    IF pathParams = Nil THEN Panic
    ELSE
    LET r == request(ctx, "DELETE", Sprintf("/phone/auto_receptionists/%s", <<pathParams.autoReceptionistId>>), Nil, Nil, NoOut, net)
    IN  IF r.err # NilErr
        THEN Return2(r.res, Errorf("Error making request: %w", <<r.err>>), <<r.call>>)
        ELSE Return2(r.res, NoError, <<r.call>>)

\* PhoneAutoReceptionistsService.DeletePolicySubSetting
DeletePolicySubSetting(ctx, pathParams, query, net) ==
    IF pathParams = Nil THEN Panic
    ELSE
    LET r == request(ctx, "DELETE", Sprintf("/phone/auto_receptionists/%s/policies/%s", <<pathParams.autoReceptionistId, pathParams.policyType>>), query, Nil, NoOut, net)
    IN  IF r.err # NilErr
        THEN Return2(r.res, Errorf("Error making request: %w", <<r.err>>), <<r.call>>)
        ELSE Return2(r.res, NoError, <<r.call>>)

\* PhoneAutoReceptionistsService.GetAutoReceptionist
GetAutoReceptionist(ctx, pathParams, net) ==
    IF pathParams = Nil THEN Panic
    ELSE
    LET r == request(ctx, "GET", Sprintf("/phone/auto_receptionists/%s", <<pathParams.autoReceptionistId>>), Nil, Nil, ZeroOut, net)
    IN  IF r.err # NilErr
        THEN Return3(NoOut, r.res, Errorf("Error making request: %w", <<r.err>>), <<r.call>>)
        ELSE Return3(r.out, r.res, NoError, <<r.call>>)

\* PhoneAutoReceptionistsService.GetAutoReceptionistPolicy
GetAutoReceptionistPolicy(ctx, pathParams, net) ==
    IF pathParams = Nil THEN Panic
    ELSE
    LET r == request(ctx, "GET", Sprintf("/phone/auto_receptionists/%s/policies", <<pathParams.autoReceptionistId>>), Nil, Nil, ZeroOut, net)
    IN  IF r.err # NilErr
        THEN Return3(NoOut, r.res, Errorf("Error making request: %w", <<r.err>>), <<r.call>>)
        ELSE Return3(r.out, r.res, NoError, <<r.call>>)

\* PhoneAutoReceptionistsService.ListAutoReceptionists
ListAutoReceptionists(ctx, req, net) ==
    LET r == request(ctx, "GET", "/phone/auto_receptionists", req, Nil, ZeroOut, net)
    IN  IF r.err # NilErr
        THEN Return3(NoOut, r.res, Errorf("Error making request: %w", <<r.err>>), <<r.call>>)
        ELSE Return3(r.out, r.res, NoError, <<r.call>>)

\* PhoneAutoReceptionistsService.UnassignPhoneNumbers
UnassignPhoneNumbers(ctx, pathParams, net) ==
    IF pathParams = Nil THEN Panic
    ELSE
    LET r == request(ctx, "DELETE", Sprintf("/phone/auto_receptionists/%s/phone_numbers/%s", <<pathParams.autoReceptionistId, pathParams.phoneNumberId>>), Nil, Nil, NoOut, net)
    IN  IF r.err # NilErr
        THEN Return2(r.res, Errorf("Error making request: %w", <<r.err>>), <<r.call>>)
        ELSE Return2(r.res, NoError, <<r.call>>)

\* PhoneAutoReceptionistsService.UnassignAllPhoneNumbers
UnassignAllPhoneNumbers(ctx, pathParams, net) ==
    IF pathParams = Nil THEN Panic
    ELSE
    LET r == request(ctx, "DELETE", Sprintf("/phone/auto_receptionists/%s/phone_numbers", <<pathParams.autoReceptionistId>>), Nil, Nil, NoOut, net)
    IN  IF r.err # NilErr
        THEN Return2(r.res, Errorf("Error making request: %w", <<r.err>>), <<r.call>>)
        ELSE Return2(r.res, NoError, <<r.call>>)

\* PhoneAutoReceptionistsService.UpdatePolicySubSetting
UpdatePolicySubSetting(ctx, pathParams, body, net) ==
    IF pathParams = Nil THEN Panic
    ELSE
    LET r == request(ctx, "PATCH", Sprintf("/phone/auto_receptionists/%s/policies/%s", <<pathParams.autoReceptionistId, pathParams.policyType>>), Nil, body, ZeroOut, net)
    IN  IF r.err # NilErr
        THEN Return3(NoOut, r.res, Errorf("Error making request: %w", <<r.err>>), <<r.call>>)
        ELSE Return3(r.out, r.res, NoError, <<r.call>>)

\* PhoneAutoReceptionistsService.UpdateAutoReceptionist
UpdateAutoReceptionist(ctx, pathParams, body, net) ==
    IF pathParams = Nil THEN Panic
    ELSE
    LET r == request(ctx, "PATCH", Sprintf("/phone/auto_receptionists/%s", <<pathParams.autoReceptionistId>>), Nil, body, NoOut, net)
    IN  IF r.err # NilErr
        THEN Return2(r.res, Errorf("Error making request: %w", <<r.err>>), <<r.call>>)
        ELSE Return2(r.res, NoError, <<r.call>>)

\* PhoneAutoReceptionistsService.UpdateAutoReceptionistPolicy
UpdateAutoReceptionistPolicy(ctx, pathParams, body, net) ==
    IF pathParams = Nil THEN Panic
    ELSE
    LET r == request(ctx, "PATCH", Sprintf("/phone/auto_receptionists/%s/policies", <<pathParams.autoReceptionistId>>), Nil, body, NoOut, net)
    IN  IF r.err # NilErr
        THEN Return2(r.res, Errorf("Error making request: %w", <<r.err>>), <<r.call>>)
        ELSE Return2(r.res, NoError, <<r.call>>)

\* PhoneBillingAccountService.GetBillingAccount
GetBillingAccount(ctx, pathParams, net) ==
    IF pathParams = Nil THEN Panic
    ELSE
    LET r == request(ctx, "GET", Sprintf("/phone/billing_accounts/%s", <<pathParams.billingAccountId>>), Nil, Nil, ZeroOut, net)
    IN  IF r.err # NilErr
        THEN Return3(NoOut, r.res, Errorf("Error making request: %w", <<r.err>>), <<r.call>>)
        ELSE Return3(r.out, r.res, NoError, <<r.call>>)

\* PhoneBillingAccountService.ListBillingAccounts
ListBillingAccounts(ctx, req, net) ==
    LET r == request(ctx, "GET", "/phone/billing_accounts", req, Nil, ZeroOut, net)
    IN  IF r.err # NilErr
        THEN Return3(NoOut, r.res, Errorf("Error making request: %w", <<r.err>>), <<r.call>>)
        ELSE Return3(r.out, r.res, NoError, <<r.call>>)

\* PhoneBlockedListService.CreateBlockedList
CreateBlockedList(ctx, req, net) ==
    LET r == request(ctx, "POST", "/phone/blocked_list", Nil, req, ZeroOut, net)
    IN  IF r.err # NilErr
        THEN Return3(NoOut, r.res, Errorf("Error making request: %w", <<r.err>>), <<r.call>>)
        ELSE Return3(r.out, r.res, NoError, <<r.call>>)

\* DeleteBlockedList returning a nil response handle beside the error
DeleteBlockedList_DropsHandle(ctx, pathParams, net) ==
    IF pathParams = Nil THEN Panic
    ELSE
    LET r == request(ctx, "DELETE", Sprintf("/phone/blocked_list/%s", <<pathParams.BlockedListId>>), Nil, Nil, NoOut, net)
    IN  IF r.err # NilErr
        THEN Return2(NilRes, Errorf("Error making request: %w", <<r.err>>), <<r.call>>)
        ELSE Return2(r.res, NoError, <<r.call>>)

\* PhoneBlockedListService.DeleteBlockedList
DeleteBlockedList(ctx, pathParams, net) ==
    IF pathParams = Nil THEN Panic
    ELSE
    LET r == request(ctx, "DELETE", Sprintf("/phone/blocked_list/%s", <<pathParams.BlockedListId>>), Nil, Nil, NoOut, net)
    IN  IF r.err # NilErr
        THEN Return2(r.res, Errorf("Error making request: %w", <<r.err>>), <<r.call>>)
        ELSE Return2(r.res, NoError, <<r.call>>)

\* GetBlockedList handing back the output client.request was decoding into
\* when it failed
GetBlockedList_KeepsOut(ctx, pathParams, net) ==
    IF pathParams = Nil THEN Panic
    ELSE
    LET r == request(ctx, "GET", Sprintf("/phone/blocked_list/%s", <<pathParams.BlockedListId>>), Nil, Nil, ZeroOut, net)
    IN  IF r.err # NilErr
        THEN Return3(r.out, r.res, Errorf("Error making request: %w", <<r.err>>), <<r.call>>)
        ELSE Return3(r.out, r.res, NoError, <<r.call>>)

\* PhoneBlockedListService.GetBlockedList
GetBlockedList(ctx, pathParams, net) ==
    IF pathParams = Nil THEN Panic
    ELSE
    LET r == request(ctx, "GET", Sprintf("/phone/blocked_list/%s", <<pathParams.BlockedListId>>), Nil, Nil, ZeroOut, net)
    IN  IF r.err # NilErr
        THEN Return3(NoOut, r.res, Errorf("Error making request: %w", <<r.err>>), <<r.call>>)
        ELSE Return3(r.out, r.res, NoError, <<r.call>>)

\* ListBlockedList passing no query to client.request: a variant used to
\* show that C9_PagesVisitedInOrder depends on the request being sent
ListBlockedList_DropsQuery(ctx, req, net) ==
    LET r == request(ctx, "GET", "/phone/blocked_list", Nil, Nil, ZeroOut, net)
    IN  IF r.err # NilErr
        THEN Return3(NoOut, r.res, Errorf("Error making request: %w", <<r.err>>), <<r.call>>)
        ELSE Return3(r.out, r.res, NoError, <<r.call>>)

\* PhoneBlockedListService.ListBlockedList
ListBlockedList(ctx, req, net) ==
    LET r == request(ctx, "GET", "/phone/blocked_list", req, Nil, ZeroOut, net)
    IN  IF r.err # NilErr
        THEN Return3(NoOut, r.res, Errorf("Error making request: %w", <<r.err>>), <<r.call>>)
        ELSE Return3(r.out, r.res, NoError, <<r.call>>)

\* PhoneBlockedListService.UpdateBlockedList
UpdateBlockedList(ctx, pathParams, body, net) ==
    IF pathParams = Nil THEN Panic
    ELSE
    LET r == request(ctx, "PATCH", Sprintf("/phone/blocked_list/%s", <<pathParams.BlockedListId>>), Nil, body, NoOut, net)
    IN  IF r.err # NilErr
        THEN Return2(r.res, Errorf("Error making request: %w", <<r.err>>), <<r.call>>)
        ELSE Return2(r.res, NoError, <<r.call>>)

\* PhoneCallHandlingService.AddCallHandling
AddCallHandling(ctx, pathParams, req, net) ==
    IF pathParams = Nil THEN Panic
    ELSE
    LET r == request(ctx, "POST", Sprintf("/phone/extensions/%s/call_handling/%s", <<pathParams.ExtensionId, pathParams.SettingType>>), Nil, req, ZeroOut, net)
    IN  IF r.err # NilErr
        THEN Return3(NoOut, r.res, Errorf("Error making request: %w", <<r.err>>), <<r.call>>)
        ELSE Return3(r.out, r.res, NoError, <<r.call>>)

\* PhoneCallHandlingService.DeleteCallHandling
DeleteCallHandling(ctx, pathParams, query, net) ==
    IF pathParams = Nil THEN Panic
    ELSE
    LET r == request(ctx, "DELETE", Sprintf("/phone/extensions/%s/call_handling/%s", <<pathParams.ExtensionId, pathParams.SettingType>>), query, Nil, NoOut, net)
    IN  IF r.err # NilErr
        THEN Return2(r.res, Errorf("Error making request: %w", <<r.err>>), <<r.call>>)
        ELSE Return2(r.res, NoError, <<r.call>>)

---------------------------------------------------------------------------
(* Callers. *)

\* a pointer argument: nil or a value
Ptr(values) == {Nil} \cup values

\* identifiers substituted into path templates
PathIDs == {"a1"}

\* a collection of n identifiers
IDList(n) == [i \in 1..n |-> "id" \o ToString(i)]

\* the values a caller gives an embedded *PaginationOptions
PaginationOptionsValues ==
    Ptr({[PageSize |-> s, NextPageToken |-> PageToken(k), PageNumber |-> 0] :
            s \in {30}, k \in 1..MaxPages})

\* the collection lengths callers pass when the endpoints are checked together
SampleLens == {0, 30, 31}

\* the settings filters callers pass when the endpoints are checked together
SampleFilters == {"sms", "sms, voicemail", "SMS", "sms,bogus,nope"}

\* one endpoint method runs from call to return
Invoke(op, env, args, ret) ==
    /\ invocations < MaxCalls
    /\ invocations' = invocations + 1
    /\ requestCalls' = requestCalls + Len(ret.calls)
    /\ last' = [op |-> op, ctx |-> env.ctx, net |-> env.net, args |-> args, ret |-> ret]
    /\ UNCHANGED <<availableSettingTypes, numPages, cursor, service, goroutines>>

\* a caller invokes AddCustomizedNumbers
CallAddCustomizedNumbers ==
    \E env \in Envs,
       req \in Ptr({[PhoneNumberIDs |-> IDList(n)] : n \in SampleLens}) :
        Invoke("AddCustomizedNumbers", env, <<req>>,
               AddCustomizedNumbers(env.ctx, req, env.net))

\* a caller invokes DeleteCustomizedNumbers
CallDeleteCustomizedNumbers ==
    \E env \in Envs,
       req \in Ptr({[struct |-> "DeleteCustomizedNumbersRequest", CustomizedIDs |-> IDList(n)] : n \in SampleLens}) :
        Invoke("DeleteCustomizedNumbers", env, <<req>>,
               DeleteCustomizedNumbers(env.ctx, req, env.net))

\* a caller invokes GetAccountSettings
CallGetAccountSettings ==
    \E env \in Envs,
       query \in Ptr({[struct |-> "AccountSettingsQuery", SettingTypes |-> f] : f \in SampleFilters}) :
        Invoke("GetAccountSettings", env, <<query>>,
               GetAccountSettings(env.ctx, query, env.net))

\* a caller invokes GetCustomizedNumbers
CallGetCustomizedNumbers ==
    \E env \in Envs,
       req \in Ptr({[struct |-> "GetCustomizedNumbersRequest", PaginationOptions |-> po] : po \in PaginationOptionsValues}) :
        Invoke("GetCustomizedNumbers", env, <<req>>,
               GetCustomizedNumbers(env.ctx, req, env.net))

\* a caller invokes CreateAlert
CallCreateAlert ==
    \E env \in Envs,
       req \in {[struct |-> "CreateAlertRequest"]} :
        Invoke("CreateAlert", env, <<req>>,
               CreateAlert(env.ctx, req, env.net))

\* a caller invokes DeleteAlert
CallDeleteAlert ==
    \E env \in Envs,
       req \in Ptr({[AlertSettingID |-> id] : id \in PathIDs}) :
        Invoke("DeleteAlert", env, <<req>>,
               DeleteAlert(env.ctx, req, env.net))

\* a caller invokes GetAlertSettingsDetails
CallGetAlertSettingsDetails ==
    \E env \in Envs,
       req \in Ptr({[AlertSettingID |-> id] : id \in PathIDs}) :
        Invoke("GetAlertSettingsDetails", env, <<req>>,
               GetAlertSettingsDetails(env.ctx, req, env.net))

\* a caller invokes ListAlertSettings
CallListAlertSettings ==
    \E env \in Envs,
       req \in Ptr({[struct |-> "ListAlertSettingsRequest", PaginationOptions |-> po, Module |-> m, Rule |-> m, Status |-> m] : po \in PaginationOptionsValues, m \in {0, 1}}) :
        Invoke("ListAlertSettings", env, <<req>>,
               ListAlertSettings(env.ctx, req, env.net))

\* a caller invokes UpdateAlertSettings
CallUpdateAlertSettings ==
    \E env \in Envs,
       req \in Ptr({[AlertSettingsID |-> id] : id \in PathIDs}),
       body \in {[struct |-> "CreateAlertRequest"]} :
        Invoke("UpdateAlertSettings", env, <<req, body>>,
               UpdateAlertSettings(env.ctx, req, body, env.net))

\* a caller invokes AddAudioItem
CallAddAudioItem ==
    \E env \in Envs,
       pathParam \in Ptr({[UserId |-> id] : id \in PathIDs}),
       req \in {[struct |-> "AddAudioItemRequest"]} :
        Invoke("AddAudioItem", env, <<pathParam, req>>,
               AddAudioItem(env.ctx, pathParam, req, env.net))

\* a caller invokes AddAudioItems
CallAddAudioItems ==
    \E env \in Envs,
       pathParam \in Ptr({[UserId |-> id] : id \in PathIDs}),
       req \in {[struct |-> "AddAudioItemsRequest"]} :
        Invoke("AddAudioItems", env, <<pathParam, req>>,
               AddAudioItems(env.ctx, pathParam, req, env.net))

\* a caller invokes DeleteAudioItem
CallDeleteAudioItem ==
    \E env \in Envs,
       pathParam \in Ptr({[AudioID |-> id] : id \in PathIDs}) :
        Invoke("DeleteAudioItem", env, <<pathParam>>,
               DeleteAudioItem(env.ctx, pathParam, env.net))

\* a caller invokes GetAudioItem
CallGetAudioItem ==
    \E env \in Envs,
       pathParam \in Ptr({[AudioID |-> id] : id \in PathIDs}) :
        Invoke("GetAudioItem", env, <<pathParam>>,
               GetAudioItem(env.ctx, pathParam, env.net))

\* a caller invokes ListAudioItems
CallListAudioItems ==
    \E env \in Envs,
       pathParam \in Ptr({[UserId |-> id] : id \in PathIDs}) :
        Invoke("ListAudioItems", env, <<pathParam>>,
               ListAudioItems(env.ctx, pathParam, env.net))

\* a caller invokes UpdateAudioItem
CallUpdateAudioItem ==
    \E env \in Envs,
       pathParam \in Ptr({[AudioID |-> id] : id \in PathIDs}),
       req \in {[struct |-> "UpdateAudioItemRequest"]} :
        Invoke("UpdateAudioItem", env, <<pathParam, req>>,
               UpdateAudioItem(env.ctx, pathParam, req, env.net))

\* a caller invokes AddPolicySubSetting
CallAddPolicySubSetting ==
    \E env \in Envs,
       pathParams \in Ptr({[autoReceptionistId |-> a, policyType |-> b] : a \in PathIDs, b \in PathIDs}),
       body \in {[struct |-> "AutoReceptionistPolicySubSetting"]} :
        Invoke("AddPolicySubSetting", env, <<pathParams, body>>,
               AddPolicySubSetting(env.ctx, pathParams, body, env.net))

\* a caller invokes AddAutoReceptionist
CallAddAutoReceptionist ==
    \E env \in Envs,
       req \in {[struct |-> "AddAutoReceptionistRequest"]} :
        Invoke("AddAutoReceptionist", env, <<req>>,
               AddAutoReceptionist(env.ctx, req, env.net))

\* a caller invokes AssignPhoneNumbers
CallAssignPhoneNumbers ==
    \E env \in Envs,
       pathParams \in Ptr({[autoReceptionistId |-> id] : id \in PathIDs}),
       body \in {[struct |-> "AssignPhoneNumbersRequest"]} :
        Invoke("AssignPhoneNumbers", env, <<pathParams, body>>,
               AssignPhoneNumbers(env.ctx, pathParams, body, env.net))

\* a caller invokes DeleteAutoReceptionist
CallDeleteAutoReceptionist ==
    \E env \in Envs,
       pathParams \in Ptr({[autoReceptionistId |-> id] : id \in PathIDs}) :
        Invoke("DeleteAutoReceptionist", env, <<pathParams>>,
               DeleteAutoReceptionist(env.ctx, pathParams, env.net))

\* a caller invokes DeletePolicySubSetting
CallDeletePolicySubSetting ==
    \E env \in Envs,
       pathParams \in Ptr({[autoReceptionistId |-> a, policyType |-> b] : a \in PathIDs, b \in PathIDs}),
       query \in Ptr({[struct |-> "DeletePolicySubSettingQuery", SharedIDs |-> ids] : ids \in {<<>>, <<"s1", "s2">>}}) :
        Invoke("DeletePolicySubSetting", env, <<pathParams, query>>,
               DeletePolicySubSetting(env.ctx, pathParams, query, env.net))

\* a caller invokes GetAutoReceptionist
CallGetAutoReceptionist ==
    \E env \in Envs,
       pathParams \in Ptr({[autoReceptionistId |-> id] : id \in PathIDs}) :
        Invoke("GetAutoReceptionist", env, <<pathParams>>,
               GetAutoReceptionist(env.ctx, pathParams, env.net))

\* a caller invokes GetAutoReceptionistPolicy
CallGetAutoReceptionistPolicy ==
    \E env \in Envs,
       pathParams \in Ptr({[autoReceptionistId |-> id] : id \in PathIDs}) :
        Invoke("GetAutoReceptionistPolicy", env, <<pathParams>>,
               GetAutoReceptionistPolicy(env.ctx, pathParams, env.net))

\* a caller invokes ListAutoReceptionists
CallListAutoReceptionists ==
    \E env \in Envs,
       req \in Ptr({[struct |-> "ListAutoReceptionistsRequest", PaginationOptions |-> po] : po \in PaginationOptionsValues}) :
        Invoke("ListAutoReceptionists", env, <<req>>,
               ListAutoReceptionists(env.ctx, req, env.net))

\* a caller invokes UnassignPhoneNumbers
CallUnassignPhoneNumbers ==
    \E env \in Envs,
       pathParams \in Ptr({[autoReceptionistId |-> a, phoneNumberId |-> b] : a \in PathIDs, b \in PathIDs}) :
        Invoke("UnassignPhoneNumbers", env, <<pathParams>>,
               UnassignPhoneNumbers(env.ctx, pathParams, env.net))

\* a caller invokes UnassignAllPhoneNumbers
CallUnassignAllPhoneNumbers ==
    \E env \in Envs,
       pathParams \in Ptr({[autoReceptionistId |-> id] : id \in PathIDs}) :
        Invoke("UnassignAllPhoneNumbers", env, <<pathParams>>,
               UnassignAllPhoneNumbers(env.ctx, pathParams, env.net))

\* a caller invokes UpdatePolicySubSetting
CallUpdatePolicySubSetting ==
    \E env \in Envs,
       pathParams \in Ptr({[autoReceptionistId |-> a, policyType |-> b] : a \in PathIDs, b \in PathIDs}),
       body \in {[struct |-> "UpdatePolicySubSettingRequest"]} :
        Invoke("UpdatePolicySubSetting", env, <<pathParams, body>>,
               UpdatePolicySubSetting(env.ctx, pathParams, body, env.net))

\* a caller invokes UpdateAutoReceptionist
CallUpdateAutoReceptionist ==
    \E env \in Envs,
       pathParams \in Ptr({[autoReceptionistId |-> id] : id \in PathIDs}),
       body \in {[struct |-> "UpdateAutoReceptionistRequest"]} :
        Invoke("UpdateAutoReceptionist", env, <<pathParams, body>>,
               UpdateAutoReceptionist(env.ctx, pathParams, body, env.net))

\* a caller invokes UpdateAutoReceptionistPolicy
CallUpdateAutoReceptionistPolicy ==
    \E env \in Envs,
       pathParams \in Ptr({[autoReceptionistId |-> id] : id \in PathIDs}),
       body \in {[struct |-> "UpdateAutoReceptionistPolicyRequest"]} :
        Invoke("UpdateAutoReceptionistPolicy", env, <<pathParams, body>>,
               UpdateAutoReceptionistPolicy(env.ctx, pathParams, body, env.net))

\* a caller invokes GetBillingAccount
CallGetBillingAccount ==
    \E env \in Envs,
       pathParams \in Ptr({[billingAccountId |-> id] : id \in PathIDs}) :
        Invoke("GetBillingAccount", env, <<pathParams>>,
               GetBillingAccount(env.ctx, pathParams, env.net))

\* a caller invokes ListBillingAccounts
CallListBillingAccounts ==
    \E env \in Envs,
       req \in Ptr({[struct |-> "ListBillingAccountsRequest", SiteID |-> s] : s \in {"", "site1"}}) :
        Invoke("ListBillingAccounts", env, <<req>>,
               ListBillingAccounts(env.ctx, req, env.net))

\* a caller invokes CreateBlockedList
CallCreateBlockedList ==
    \E env \in Envs,
       req \in {[struct |-> "CreateBlockedListRequest"]} :
        Invoke("CreateBlockedList", env, <<req>>,
               CreateBlockedList(env.ctx, req, env.net))

\* a caller invokes DeleteBlockedList
CallDeleteBlockedList ==
    \E env \in Envs,
       pathParams \in Ptr({[BlockedListId |-> id] : id \in PathIDs}) :
        Invoke("DeleteBlockedList", env, <<pathParams>>,
               DeleteBlockedList(env.ctx, pathParams, env.net))

\* a caller invokes GetBlockedList
CallGetBlockedList ==
    \E env \in Envs,
       pathParams \in Ptr({[BlockedListId |-> id] : id \in PathIDs}) :
        Invoke("GetBlockedList", env, <<pathParams>>,
               GetBlockedList(env.ctx, pathParams, env.net))

\* a caller invokes ListBlockedList
CallListBlockedList ==
    \E env \in Envs,
       req \in Ptr({[struct |-> "ListBlockedListRequest", PaginationOptions |-> po] : po \in PaginationOptionsValues}) :
        Invoke("ListBlockedList", env, <<req>>,
               ListBlockedList(env.ctx, req, env.net))

\* a caller invokes UpdateBlockedList
CallUpdateBlockedList ==
    \E env \in Envs,
       pathParams \in Ptr({[BlockedListId |-> id] : id \in PathIDs}),
       body \in {[struct |-> "CreateBlockedListRequest"]} :
        Invoke("UpdateBlockedList", env, <<pathParams, body>>,
               UpdateBlockedList(env.ctx, pathParams, body, env.net))

\* a caller invokes AddCallHandling
CallAddCallHandling ==
    \E env \in Envs,
       pathParams \in Ptr({[ExtensionId |-> a, SettingType |-> b] : a \in PathIDs, b \in PathIDs}),
       req \in {[struct |-> "AddCallHandlingRequest"]} :
        Invoke("AddCallHandling", env, <<pathParams, req>>,
               AddCallHandling(env.ctx, pathParams, req, env.net))

\* a caller invokes DeleteCallHandling
CallDeleteCallHandling ==
    \E env \in Envs,
       pathParams \in Ptr({[ExtensionId |-> a, SettingType |-> b] : a \in PathIDs, b \in PathIDs}),
       query \in Ptr({[struct |-> "DeleteCallHandlingQuery", CallForwardingId |-> c, HolidayId |-> h] : c \in {"", "cf1"}, h \in {"", "h1"}}) :
        Invoke("DeleteCallHandling", env, <<pathParams, query>>,
               DeleteCallHandling(env.ctx, pathParams, query, env.net))

---------------------------------------------------------------------------
(* The specification of the endpoint methods. *)

\* the service value after construction: the client reference every
\* sub-service shares
NewPhoneService == [client |-> "client"]

\* the callers that may run endpoint methods at the same time
Goroutines == {1, 2}

\* a caller that has not called yet
NotCalling ==
    [pc |-> "idle", op |-> "none", ctx |-> "live", net |-> "ok", passed |-> Nil,
     req |-> Nil, i |-> 0, concurrent |-> FALSE, solo |-> Panic, ret |-> Panic]

\* no caller is walking a list
NoCursor == [state |-> "idle", endpoint |-> "none", PageSize |-> 0, token |-> "", visited |-> <<>>]

\* no endpoint method has run yet
NoCall == [op |-> "none", ctx |-> "live", net |-> "ok", args |-> <<>>,
           ret |-> Return2(NilRes, NoError, <<>>)]

Init ==
    /\ availableSettingTypes = AvailableSettingTypes
    /\ numPages = MaxPages
    /\ invocations = 0
    /\ requestCalls = 0
    /\ last = NoCall
    /\ cursor = NoCursor
    /\ service = NewPhoneService
    /\ goroutines = [g \in Goroutines |-> NotCalling]

Next ==
    \/ CallAddCustomizedNumbers
    \/ CallDeleteCustomizedNumbers
    \/ CallGetCustomizedNumbers
    \/ CallGetAccountSettings
    \/ CallCreateAlert
    \/ CallDeleteAlert
    \/ CallGetAlertSettingsDetails
    \/ CallListAlertSettings
    \/ CallUpdateAlertSettings
    \/ CallAddAudioItem
    \/ CallAddAudioItems
    \/ CallDeleteAudioItem
    \/ CallGetAudioItem
    \/ CallListAudioItems
    \/ CallUpdateAudioItem
    \/ CallAddPolicySubSetting
    \/ CallAddAutoReceptionist
    \/ CallAssignPhoneNumbers
    \/ CallDeleteAutoReceptionist
    \/ CallDeletePolicySubSetting
    \/ CallGetAutoReceptionist
    \/ CallGetAutoReceptionistPolicy
    \/ CallListAutoReceptionists
    \/ CallUnassignPhoneNumbers
    \/ CallUnassignAllPhoneNumbers
    \/ CallUpdatePolicySubSetting
    \/ CallUpdateAutoReceptionist
    \/ CallUpdateAutoReceptionistPolicy
    \/ CallGetBillingAccount
    \/ CallListBillingAccounts
    \/ CallCreateBlockedList
    \/ CallDeleteBlockedList
    \/ CallGetBlockedList
    \/ CallListBlockedList
    \/ CallUpdateBlockedList
    \/ CallAddCallHandling
    \/ CallDeleteCallHandling

Spec == Init /\ [][Next]_vars

---------------------------------------------------------------------------
(* The batch endpoints on every collection length, one call each. *)

\* AddCustomizedNumbers on a collection of any length up to MaxIDs
BatchAdd ==
    /\ invocations = 0
    /\ \E env \in Envs,
          req \in Ptr({[PhoneNumberIDs |-> IDList(n)] : n \in 0..MaxIDs}) :
           Invoke("AddCustomizedNumbers", env, <<req>>,
                  AddCustomizedNumbers(env.ctx, req, env.net))

\* DeleteCustomizedNumbers on a collection of any length up to MaxIDs
BatchDelete ==
    /\ invocations = 0
    /\ \E env \in Envs,
          req \in Ptr({[struct |-> "DeleteCustomizedNumbersRequest", CustomizedIDs |-> IDList(n)] : n \in 0..MaxIDs}) :
           Invoke("DeleteCustomizedNumbers", env, <<req>>,
                  DeleteCustomizedNumbers(env.ctx, req, env.net))

BatchNext ==
    \/ BatchAdd
    \/ BatchDelete

BatchSpec == Init /\ [][BatchNext]_vars

---------------------------------------------------------------------------
(* GetAccountSettings on every settings filter, one call each. *)

\* what a settings filter is concatenated from: the separator, white space,
\* recognized names, a name in the wrong case and an unknown name
Pieces == {",", " ", "sms", "SMS", "call_park", "nope"}

RECURSIVE FiltersOf(_)
\* the filters made of at most n pieces
FiltersOf(n) ==
    IF n = 0 THEN {""}
    ELSE LET shorter == FiltersOf(n - 1)
         IN  shorter \cup {f \o p : f \in shorter, p \in Pieces}

\* the settings filters a caller passes
Filters == FiltersOf(MaxPieces)

\* GetAccountSettings on any filter
FilterGet ==
    /\ invocations = 0
    /\ \E env \in Envs,
          query \in Ptr({[struct |-> "AccountSettingsQuery", SettingTypes |-> f] : f \in Filters}) :
           Invoke("GetAccountSettings", env, <<query>>,
                  GetAccountSettings(env.ctx, query, env.net))

FilterNext == FilterGet

FilterSpec == Init /\ [][FilterNext]_vars

---------------------------------------------------------------------------
(* Callers whose identifiers hold characters reserved in a URL path. *)

\* identifiers a caller may hold: plain, and with '/', '?' and '%'
ReservedIDs == {"a1", "a/b", "a?b", "a%2Fb"}

\* one DeleteAlert call with such an identifier
PathDeleteAlert ==
    /\ invocations = 0
    /\ \E env \in Envs,
          req \in Ptr({[AlertSettingID |-> id] : id \in ReservedIDs}) :
           Invoke("DeleteAlert", env, <<req>>,
                  DeleteAlert(env.ctx, req, env.net))

\* one UnassignPhoneNumbers call with such identifiers
PathUnassignPhoneNumbers ==
    /\ invocations = 0
    /\ \E env \in Envs,
          pathParams \in Ptr({[autoReceptionistId |-> a, phoneNumberId |-> b] :
                                 a \in ReservedIDs, b \in ReservedIDs}) :
           Invoke("UnassignPhoneNumbers", env, <<pathParams>>,
                  UnassignPhoneNumbers(env.ctx, pathParams, env.net))

\* one DeleteCallHandling call with such identifiers
PathDeleteCallHandling ==
    /\ invocations = 0
    /\ \E env \in Envs,
          pathParams \in Ptr({[ExtensionId |-> a, SettingType |-> b] :
                                 a \in ReservedIDs, b \in ReservedIDs}),
          query \in Ptr({[struct |-> "DeleteCallHandlingQuery", CallForwardingId |-> c, HolidayId |-> ""] :
                            c \in {"", "cf1"}}) :
           Invoke("DeleteCallHandling", env, <<pathParams, query>>,
                  DeleteCallHandling(env.ctx, pathParams, query, env.net))

PathNext == PathDeleteAlert \/ PathUnassignPhoneNumbers \/ PathDeleteCallHandling

PathSpec == Init /\ [][PathNext]_vars

---------------------------------------------------------------------------
(* Callers running endpoint methods at the same time on one service value.  *)
(* A method runs in steps: its checks (the settings filter one entry per    *)
(* step), then client.request and the return.  Steps of different callers   *)
(* interleave freely: the methods take no lock.                             *)

\* the settings filters concurrent callers pass
ConcurrentFilters == {"sms", "sms,nope", " call_park ,sms", "nope, sms"}

\* the methods concurrent callers run, with the request each passes
ConcurrentCalls ==
    {[op |-> "GetAccountSettings", req |-> q] :
        q \in Ptr({[struct |-> "AccountSettingsQuery", SettingTypes |-> f] : f \in ConcurrentFilters})}
    \cup {[op |-> "AddCustomizedNumbers", req |-> r] :
        r \in Ptr({[PhoneNumberIDs |-> IDList(n)] : n \in {BatchLimit, BatchLimit + 1}})}
    \cup {[op |-> "DeleteCustomizedNumbers", req |-> r] :
        r \in Ptr({[struct |-> "DeleteCustomizedNumbersRequest", CustomizedIDs |-> IDList(n)] :
                      n \in {BatchLimit, BatchLimit + 1}})}
    \cup {[op |-> "DeleteAlert", req |-> [AlertSettingID |-> id]] : id \in PathIDs}

\* the method a caller runs, from entry to return
RunEndpoint(op, ctx, req, net) ==
    CASE op = "GetAccountSettings" -> GetAccountSettings(ctx, req, net)
      [] op = "AddCustomizedNumbers" -> AddCustomizedNumbers(ctx, req, net)
      [] op = "DeleteCustomizedNumbers" -> DeleteCustomizedNumbers(ctx, req, net)
      [] op = "DeleteAlert" -> DeleteAlert(ctx, req, net)

\* a caller enters a method; solo is what the method returns when nothing
\* else runs until it has returned
GoCall(g) ==
    /\ goroutines[g].pc = "idle"
    /\ \E c \in ConcurrentCalls, env \in Envs :
          goroutines' = [goroutines EXCEPT ![g] =
              [pc |-> "validating", op |-> c.op, ctx |-> env.ctx, net |-> env.net,
               passed |-> c.req, req |-> c.req, i |-> 1,
               concurrent |-> \E h \in Goroutines \ {g} :
                                  goroutines[h].pc \in {"validating", "requesting"},
               solo |-> RunEndpoint(c.op, env.ctx, c.req, env.net),
               ret |-> Panic]]
    /\ invocations' = invocations + 1
    /\ UNCHANGED <<availableSettingTypes, numPages, requestCalls, last, cursor, service>>

\* one step of a method's checks on the caller's record c: the nil
\* dereference and the size check take one step, the settings filter one
\* step per entry, reading the recognized names as they are at that step
ValidateStep(c) ==
    IF c.op = "GetAccountSettings" /\ c.req # Nil
    THEN LET entries == Split(c.req.SettingTypes, ",")
             loop == SettingTypesLoop(<<entries[c.i]>>, 1)
         IN  IF loop.err # NoError
             THEN [c EXCEPT !.pc = "done",
                            !.ret = [Return3(NoOut, NilRes, loop.err, <<>>) EXCEPT !.evaluated = c.i]]
             ELSE IF c.i < Len(entries) THEN [c EXCEPT !.i = c.i + 1]
             ELSE [c EXCEPT !.pc = "requesting"]
    ELSE LET whole == RunEndpoint(c.op, c.ctx, c.req, c.net)
         IN  IF whole.calls = <<>>
             THEN [c EXCEPT !.pc = "done", !.ret = whole]
             ELSE [c EXCEPT !.pc = "requesting"]

\* the checks adding an entry they reject to the recognized names: a variant
\* used to show that C14_ConcurrentCallsIndependent depends on the methods
\* writing nothing they share
GoValidate_LearnsEntry(g) ==
    /\ goroutines[g].pc = "validating"
    /\ goroutines' = [goroutines EXCEPT ![g] = ValidateStep(goroutines[g])]
    /\ availableSettingTypes' =
          LET c == goroutines[g]
          IN  IF c.op = "GetAccountSettings" /\ c.req # Nil
              THEN LET setting == TrimSpace(Split(c.req.SettingTypes, ",")[c.i])
                   IN  IF Contains(availableSettingTypes, setting)
                       THEN availableSettingTypes
                       ELSE Append(availableSettingTypes, setting)
              ELSE availableSettingTypes
    /\ UNCHANGED <<numPages, invocations, requestCalls, last, cursor, service>>

\* the checks storing the trimmed filter back into the query: a variant used
\* to show that C15_ValidationLeavesInputsUnchanged depends on the checks
\* only reading the request
GoValidate_TrimsInPlace(g) ==
    /\ goroutines[g].pc = "validating"
    /\ goroutines' = [goroutines EXCEPT ![g] =
          LET c == goroutines[g]
              n == ValidateStep(c)
          IN  IF c.op = "GetAccountSettings" /\ c.req # Nil
              THEN [n EXCEPT !.req.SettingTypes = TrimSpace(@)]
              ELSE n]
    /\ UNCHANGED <<availableSettingTypes, numPages, invocations, requestCalls, last,
                   cursor, service>>

\* the checks of a method advance by one step; they write nothing but the
\* method's own locals
GoValidate(g) ==
    /\ goroutines[g].pc = "validating"
    /\ goroutines' = [goroutines EXCEPT ![g] = ValidateStep(goroutines[g])]
    /\ UNCHANGED <<availableSettingTypes, numPages, invocations, requestCalls, last,
                   cursor, service>>

\* the method calls client.request, wraps its error and returns
GoRequest(g) ==
    /\ goroutines[g].pc = "requesting"
    /\ LET c == goroutines[g]
           ret == RunEndpoint(c.op, c.ctx, c.req, c.net)
       IN  /\ goroutines' = [goroutines EXCEPT ![g] = [c EXCEPT !.pc = "done", !.ret = ret]]
           /\ requestCalls' = requestCalls + Len(ret.calls)
    /\ UNCHANGED <<availableSettingTypes, numPages, invocations, last, cursor, service>>

ConcNext == \E g \in Goroutines : GoCall(g) \/ GoValidate(g) \/ GoRequest(g)

ConcSpec == Init /\ [][ConcNext]_vars

---------------------------------------------------------------------------
(* Callers passing query values of every shape, one call each. *)

\* strings a caller puts in a query field: empty, plain, and with the
\* characters a query string reserves
QueryStrings == {"", "h1", "a&b=c", "50% +1,x/y?"}

\* the embedded PaginationOptions a caller passes: absent, zero-valued, or
\* with some fields set
QueryGroups ==
    Ptr({[PageSize |-> s, NextPageToken |-> t, PageNumber |-> n] :
            s \in {0, 30}, t \in {"", "tok2"}, n \in {0, 2}})

QueryDeleteCallHandling ==
    /\ invocations = 0
    /\ \E env \in Envs,
          pathParams \in {[ExtensionId |-> a, SettingType |-> a] : a \in PathIDs},
          query \in {[struct |-> "DeleteCallHandlingQuery", CallForwardingId |-> c, HolidayId |-> h] :
                        c \in QueryStrings, h \in QueryStrings} :
           Invoke("DeleteCallHandling", env, <<pathParams, query>>,
                  DeleteCallHandling(env.ctx, pathParams, query, env.net))

QueryListBillingAccounts ==
    /\ invocations = 0
    /\ \E env \in Envs,
          req \in {[struct |-> "ListBillingAccountsRequest", SiteID |-> x] : x \in QueryStrings} :
           Invoke("ListBillingAccounts", env, <<req>>,
                  ListBillingAccounts(env.ctx, req, env.net))

QueryListAlertSettings ==
    /\ invocations = 0
    /\ \E env \in Envs,
          req \in {[struct |-> "ListAlertSettingsRequest", PaginationOptions |-> po,
                    Module |-> m, Rule |-> r, Status |-> 0] :
                      po \in QueryGroups, m \in {0, 12}, r \in {0, 3}} :
           Invoke("ListAlertSettings", env, <<req>>,
                  ListAlertSettings(env.ctx, req, env.net))

QueryGetCustomizedNumbers ==
    /\ invocations = 0
    /\ \E env \in Envs,
          req \in {[struct |-> "GetCustomizedNumbersRequest", PaginationOptions |-> po] :
                      po \in QueryGroups} :
           Invoke("GetCustomizedNumbers", env, <<req>>,
                  GetCustomizedNumbers(env.ctx, req, env.net))

QueryDeletePolicySubSetting ==
    /\ invocations = 0
    /\ \E env \in Envs,
          pathParams \in {[autoReceptionistId |-> a, policyType |-> a] : a \in PathIDs},
          query \in {[struct |-> "DeletePolicySubSettingQuery", SharedIDs |-> ids] :
                        ids \in {<<>>, <<"s1">>, <<"s1", "a&b=c">>, <<"s2", "s1">>}} :
           Invoke("DeletePolicySubSetting", env, <<pathParams, query>>,
                  DeletePolicySubSetting(env.ctx, pathParams, query, env.net))

QueryGetAccountSettings ==
    /\ invocations = 0
    /\ \E env \in Envs,
          query \in {[struct |-> "AccountSettingsQuery", SettingTypes |-> f] :
                        f \in {"sms", "sms, voicemail", " call_park ,sms",
                              "personal_audio_library", "call_park,restricted_call_hours"}} :
           Invoke("GetAccountSettings", env, <<query>>,
                  GetAccountSettings(env.ctx, query, env.net))

QueryNext ==
    \/ QueryDeleteCallHandling
    \/ QueryListBillingAccounts
    \/ QueryListAlertSettings
    \/ QueryGetCustomizedNumbers
    \/ QueryDeletePolicySubSetting
    \/ QueryGetAccountSettings

QuerySpec == Init /\ [][QueryNext]_vars

---------------------------------------------------------------------------
(* A caller walking a list endpoint page by page. *)

\* the list endpoints whose request embeds PaginationOptions
PagedEndpoints ==
    {"GetCustomizedNumbers", "ListAlertSettings", "ListAutoReceptionists", "ListBlockedList"}

\* the request type each list endpoint takes
ListRequestStruct(endpoint) ==
    CASE endpoint = "GetCustomizedNumbers" -> "GetCustomizedNumbersRequest"
      [] endpoint = "ListAlertSettings" -> "ListAlertSettingsRequest"
      [] endpoint = "ListAutoReceptionists" -> "ListAutoReceptionistsRequest"
      [] endpoint = "ListBlockedList" -> "ListBlockedListRequest"

\* the list request that asks for the page after token
PageRequest(endpoint, size, token) ==
    LET po == [PageSize |-> size, NextPageToken |-> token, PageNumber |-> 0]
    IN  IF endpoint = "ListAlertSettings"
        THEN [struct |-> ListRequestStruct(endpoint), PaginationOptions |-> po,
              Module |-> 0, Rule |-> 0, Status |-> 0]
        ELSE [struct |-> ListRequestStruct(endpoint), PaginationOptions |-> po]

\* one call of a list endpoint
ListCall(endpoint, ctx, req, net) ==
    CASE endpoint = "GetCustomizedNumbers" -> GetCustomizedNumbers(ctx, req, net)
      [] endpoint = "ListAlertSettings" -> ListAlertSettings(ctx, req, net)
      [] endpoint = "ListAutoReceptionists" -> ListAutoReceptionists(ctx, req, net)
      [] endpoint = "ListBlockedList" -> ListBlockedList(ctx, req, net)

\* the caller starts at the empty token
CursorStart ==
    /\ cursor.state = "idle"
    /\ \E endpoint \in PagedEndpoints, size \in {0, 30} :
           cursor' = [state |-> "active", endpoint |-> endpoint, PageSize |-> size,
                      token |-> "", visited |-> <<>>]
    /\ UNCHANGED <<availableSettingTypes, numPages, invocations, requestCalls, last,
                   service, goroutines>>

\* the caller's next step: one call carrying the previous response's
\* next-page-token; it stops on an error or on an empty next-page-token
CursorNext ==
    /\ cursor.state = "active"
    /\ Len(cursor.visited) <= MaxPages
    /\ \E env \in Envs :
           LET req == PageRequest(cursor.endpoint, cursor.PageSize, cursor.token)
               ret == ListCall(cursor.endpoint, env.ctx, req, env.net)
           IN  /\ invocations' = invocations + 1
               /\ requestCalls' = requestCalls + Len(ret.calls)
               /\ last' = [op |-> cursor.endpoint, ctx |-> env.ctx, net |-> env.net,
                           args |-> <<req>>, ret |-> ret]
               /\ cursor' =
                    IF ret.err # NoError THEN [cursor EXCEPT !.state = "failed"]
                    ELSE [cursor EXCEPT
                            !.visited = Append(@, ret.out.page),
                            !.token = ret.out.next_page_token,
                            !.state = IF ret.out.next_page_token = "" THEN "done" ELSE "active"]
    /\ UNCHANGED <<availableSettingTypes, numPages, service, goroutines>>

\* the remote list holds any number of pages up to MaxPages
PagingInit ==
    /\ availableSettingTypes = AvailableSettingTypes
    /\ numPages \in 1..MaxPages
    /\ invocations = 0
    /\ requestCalls = 0
    /\ last = NoCall
    /\ cursor = NoCursor
    /\ service = NewPhoneService
    /\ goroutines = [g \in Goroutines |-> NotCalling]

PagingNext ==
    \/ CursorStart
    \/ CursorNext

PagingSpec == PagingInit /\ [][PagingNext]_vars

---------------------------------------------------------------------------
(* Properties. *)

\* the four error kinds of the design
ErrorKinds == {"ValidationError", "TransportError", "APIError", "DecodeError"}

\* an error made by a precondition check: a plain message, nothing wrapped
IsValidationError(err) == err.type = "errorString" /\ err.cause = NilErr

\* the identifier collection of a batch request
BatchIDs(op, req) ==
    IF op = "AddCustomizedNumbers" THEN req.PhoneNumberIDs ELSE req.CustomizedIDs

\* the last invocation was a batch add/delete with a non-nil request
LastIsBatch ==
    /\ last.op \in {"AddCustomizedNumbers", "DeleteCustomizedNumbers"}
    /\ last.args[1] # Nil

\* C1: a batch add or delete of more than 30 identifiers returns a
\* validation error (with a nil response) and calls client.request zero times.
C1_OversizedBatchRejected ==
    (LastIsBatch /\ Len(BatchIDs(last.op, last.args[1])) > BatchLimit)
        => /\ ~last.ret.panicked
           /\ IsValidationError(last.ret.err)
           /\ last.ret.res = NilRes
           /\ last.ret.calls = <<>>
           /\ requestCalls = 0

\* a batch delete of 31 identifiers, the smallest oversized batch, was rejected
C1_Witness ==
    /\ last.op = "DeleteCustomizedNumbers"
    /\ last.args[1] # Nil
    /\ Len(last.args[1].CustomizedIDs) = BatchLimit + 1
    /\ IsValidationError(last.ret.err)
    /\ requestCalls = 0

\* C4: a batch add or delete of 0 to 30 identifiers, the empty collection and
\* the collection of exactly 30 included, is not rejected by the size check
\* and is dispatched (one client.request call carrying the collection).
C4_BatchWithinLimitDispatched ==
    (LastIsBatch /\ Len(BatchIDs(last.op, last.args[1])) <= BatchLimit)
        => /\ ~last.ret.panicked
           /\ ~IsValidationError(last.ret.err)
           /\ Len(last.ret.calls) = 1
           /\ requestCalls = 1
           /\ last.args[1] \in {last.ret.calls[1].query, last.ret.calls[1].body}

\* an empty collection was dispatched by AddCustomizedNumbers
C4_Witness ==
    /\ last.op = "AddCustomizedNumbers"
    /\ last.args[1] # Nil
    /\ last.args[1].PhoneNumberIDs = <<>>
    /\ Len(last.ret.calls) = 1
    /\ last.ret.err = NoError

\* the fixed set of recognized setting names
RecognizedNames == {AvailableSettingTypes[i] : i \in 1..Len(AvailableSettingTypes)}

\* the last invocation was GetAccountSettings with a non-nil query
LastIsSettingsRead == last.op = "GetAccountSettings" /\ last.args[1] # Nil

\* the comma-separated entries of the last settings filter, as written
FilterEntries == Split(last.args[1].SettingTypes, ",")

\* the positions of the entries that, trimmed, are no recognized name
BadEntries == {k \in 1..Len(FilterEntries) : TrimSpace(FilterEntries[k]) \notin RecognizedNames}

\* C2: GetAccountSettings on a filter with at least one entry that (trimmed)
\* is no recognized setting name returns a validation error and calls
\* client.request zero times; on a filter whose every trimmed entry is
\* recognized it calls client.request (once).
C2_FilterMembershipDecidesDispatch ==
    LastIsSettingsRead =>
        /\ BadEntries # {} =>
              /\ IsValidationError(last.ret.err)
              /\ last.ret.calls = <<>>
              /\ requestCalls = 0
        /\ BadEntries = {} =>
              /\ ~IsValidationError(last.ret.err)
              /\ Len(last.ret.calls) = 1
              /\ requestCalls = 1

\* a filter whose first entry is recognized and whose second is not was rejected
C2_Witness ==
    /\ LastIsSettingsRead
    /\ last.args[1].SettingTypes = "sms,nope"
    /\ IsValidationError(last.ret.err)
    /\ requestCalls = 0

\* C7: when a filter holds unrecognized entries, the error GetAccountSettings
\* returns names the first of them in left-to-right order (trimmed), and the
\* loop looks at no entry after it.
C7_FirstInvalidEntryReported ==
    (LastIsSettingsRead /\ BadEntries # {}) =>
        LET first == CHOOSE k \in BadEntries : \A j \in BadEntries : k <= j
        IN  /\ last.ret.err.msg
                 = "Error: invalid setting type '" \o TrimSpace(FilterEntries[first]) \o "'"
            /\ last.ret.evaluated = first

\* a filter with two different unrecognized entries: the error names the
\* first of the two and the second was not looked at
C7_Witness ==
    /\ LastIsSettingsRead
    /\ last.args[1].SettingTypes = "SMS,nope"
    /\ Cardinality(BadEntries) = 2
    /\ last.ret.err.msg = "Error: invalid setting type 'SMS'"
    /\ last.ret.evaluated = 1

\* the lower-case letter of an upper-case one, any other character unchanged
LowerChar(c) ==
    LET upper == "ABCDEFGHIJKLMNOPQRSTUVWXYZ"
        lower == "abcdefghijklmnopqrstuvwxyz"
    IN  IF \E i \in 1..Len(upper) : Char(upper, i) = c
        THEN Char(lower, CHOOSE i \in 1..Len(upper) : Char(upper, i) = c)
        ELSE c

RECURSIVE ToLower(_)
\* s in lower case
ToLower(s) ==
    IF Len(s) = 0 THEN "" ELSE LowerChar(Char(s, 1)) \o ToLower(SubSeq(s, 2, Len(s)))

\* C8: membership is decided per entry after trimming white space and with
\* the letter case as written: the loop passes every entry that is a
\* recognized name once trimmed (such a filter is dispatched), and a filter
\* with an entry that is a recognized name only up to letter case is rejected.
C8_TrimmedCaseSensitiveMembership ==
    LastIsSettingsRead =>
        /\ \A k \in 1..Len(FilterEntries) :
              (\A j \in 1..k : TrimSpace(FilterEntries[j]) \in RecognizedNames)
                  => /\ last.ret.evaluated >= k
                     /\ k = Len(FilterEntries) => Len(last.ret.calls) = 1
        /\ \A k \in 1..Len(FilterEntries) :
              LET e == TrimSpace(FilterEntries[k])
              IN  (e \notin RecognizedNames /\ ToLower(e) \in RecognizedNames)
                      => /\ IsValidationError(last.ret.err)
                         /\ last.ret.calls = <<>>
                         /\ last.ret.evaluated <= k

\* an entry written with leading white space was accepted and the entry
\* after it, a recognized name in upper case, was rejected
C8_Witness ==
    /\ LastIsSettingsRead
    /\ last.args[1].SettingTypes = " sms,SMS"
    /\ last.ret.evaluated = 2
    /\ last.ret.err.msg = "Error: invalid setting type 'SMS'"

\* the endpoint methods that return a typed output beside the response handle
TypedEndpoints ==
    { "GetAccountSettings", "GetCustomizedNumbers", "CreateAlert",
      "GetAlertSettingsDetails", "ListAlertSettings", "AddAudioItem",
      "AddAudioItems", "GetAudioItem", "ListAudioItems", "AddPolicySubSetting",
      "AddAutoReceptionist", "GetAutoReceptionist", "GetAutoReceptionistPolicy",
      "ListAutoReceptionists", "UpdatePolicySubSetting", "GetBillingAccount",
      "ListBillingAccounts", "CreateBlockedList", "GetBlockedList",
      "ListBlockedList", "AddCallHandling" }

\* C3: an endpoint method whose validation passes calls client.request
\* exactly once, also when that call fails (no retry), so over any sequence
\* of invocations there are never more client.request calls than invocations.
C3_OneRequestPerInvocation ==
    /\ requestCalls <= invocations
    /\ Len(last.ret.calls) <= 1
    /\ (last.op # "none" /\ ~last.ret.panicked /\ ~IsValidationError(last.ret.err))
          => Len(last.ret.calls) = 1

\* two invocations, the second of which failed in client.request, made two calls
C3_Witness ==
    /\ invocations = 2
    /\ requestCalls = 2
    /\ last.ret.err.type = "wrapError"
    /\ Len(last.ret.calls) = 1

\* C5: a method that returns an error returns a nil output with it, so a
\* non-nil output only comes with a nil error and the output a failed decode
\* left half-filled never reaches the caller.
C5_NoOutputWithError ==
    (last.op # "none" /\ ~last.ret.panicked) =>
        /\ last.ret.err # NoError => last.ret.out = NoOut
        /\ last.ret.out # NoOut => (last.ret.err = NoError /\ last.op \in TypedEndpoints)
        /\ last.ret.out.state # "partial"

\* a typed endpoint whose response body failed to decode returned a nil output
C5_Witness ==
    /\ last.op \in TypedEndpoints
    /\ last.net = "badbody"
    /\ last.ret.err.cause.kind = "DecodeError"
    /\ last.ret.out = NoOut

\* how a caller can classify the way an invocation ended
ErrorKindOf(ret) ==
    IF ret.panicked THEN "panic"
    ELSE IF IsValidationError(ret.err) THEN "ValidationError"
    ELSE IF ret.err.type = "wrapError" THEN ret.err.cause.kind
    ELSE "unclassified"

\* C6: every failing exit of an endpoint call yields exactly one of the four
\* error kinds, and a failure of client.request always reaches the caller
\* wrapped.
C6_EveryFailureClassified ==
    (last.op # "none" /\ (last.ret.panicked \/ last.ret.err # NoError))
        => ErrorKindOf(last.ret) \in ErrorKinds

\* C10: a call whose context is canceled while it is in flight returns an
\* error that wraps a TransportError marked canceled (other transport
\* failures are not marked), with a nil response, and the method calls
\* client.request no more after it.
C10_CancellationDistinguished ==
    /\ (last.op # "none" /\ last.ctx = "canceled" /\ last.ret.calls # <<>>)
          => /\ last.ret.err.type = "wrapError"
             /\ last.ret.err.cause.kind = "TransportError"
             /\ last.ret.err.cause.canceled
             /\ Len(last.ret.calls) = 1
    /\ (last.op # "none" /\ last.ctx = "live" /\ last.ret.err.cause.kind = "TransportError")
          => ~last.ret.err.cause.canceled

\* GetBillingAccount was canceled in flight and reported it
C10_Witness ==
    /\ last.op = "GetBillingAccount"
    /\ last.ctx = "canceled"
    /\ last.ret.err.cause.kind = "TransportError"
    /\ last.ret.err.cause.canceled
    /\ Len(last.ret.calls) = 1

\* the pages 1..n in order
PagesUpTo(n) == [k \in 1..n |-> k]

\* C9: walking a list endpoint from the empty token, each step one call
\* carrying the previous next-page-token, visits the pages 1, 2, ... in order
\* without repeating one, never goes past the last page, and stops exactly
\* after the page whose next-page-token is empty, having visited all N.
C9_PagesVisitedInOrder ==
    /\ cursor.visited = PagesUpTo(Len(cursor.visited))
    /\ Len(cursor.visited) <= numPages
    /\ cursor.state = "active" => Len(cursor.visited) < numPages
    /\ cursor.state = "done" => Len(cursor.visited) = numPages
    /\ cursor.state # "idle" =>
          /\ requestCalls = invocations
          /\ requestCalls = Len(cursor.visited) + (IF cursor.state = "failed" THEN 1 ELSE 0)

\* a walk over ListBlockedList finished after three pages
C9_Witness ==
    /\ cursor.state = "done"
    /\ cursor.endpoint = "ListBlockedList"
    /\ numPages >= 3
    /\ cursor.visited = PagesUpTo(numPages)

\* C11: a typed endpoint whose call came back with a successful status and a
\* body that does not decode into the declared output returns an error
\* wrapping a DecodeError and a nil output: the caller gets neither the
\* zero-valued out nor the half-filled one.
C11_BadBodyYieldsDecodeError ==
    (last.op \in TypedEndpoints /\ last.net = "badbody" /\ last.ret.res = "http200")
        => /\ last.ret.err.type = "wrapError"
           /\ last.ret.err.cause.kind = "DecodeError"
           /\ last.ret.out = NoOut
           /\ last.ret.out.state \notin {"zero", "partial"}

\* GetBlockedList met a body of the wrong shape under status 200
C11_Witness ==
    /\ last.op = "GetBlockedList"
    /\ last.net = "badbody"
    /\ last.ret.res = "http200"
    /\ last.ret.err.cause.kind = "DecodeError"
    /\ last.ret.err.cause.status = 200
    /\ last.ret.out = NoOut

\* the parameter names in the query string of a call
KeysSent(call) ==
    LET pairs == ParseQuery(call.rawQuery)
    IN  {pairs[i].key : i \in 1..Len(pairs)}

\* the last invocation reached client.request with a query value
LastSentQuery ==
    /\ last.op # "none"
    /\ last.ret.calls # <<>>
    /\ last.ret.calls[1].query # Nil

\* C12: a query field holding its zero value is left out of the query string
\* (no field of the query types is marked always-present); in particular
\* ListAlertSettings with Module, Rule and Status all zero sends no module,
\* rule or status parameter.
C12_ZeroFieldsOmitted ==
    LastSentQuery =>
        LET call == last.ret.calls[1]
            tags == UrlTags(call.query.struct)
        IN  /\ \A i \in 1..Len(tags) :
                  IsEmptyValue(tags[i].kind, call.query[tags[i].field])
                      => KeyOf(tags[i]) \notin KeysSent(call)
            /\ (last.op = "ListAlertSettings" /\ call.query.Module = 0
                  /\ call.query.Rule = 0 /\ call.query.Status = 0)
                  => KeysSent(call) \cap {"module", "rule", "status"} = {}

\* the path templates of the endpoints called with reserved identifiers
PathTemplate(op) ==
    CASE op = "DeleteAlert" -> "/phone/alert_settings/%s"
      [] op = "UnassignPhoneNumbers" -> "/phone/auto_receptionists/%s/phone_numbers/%s"
      [] op = "DeleteCallHandling" -> "/phone/extensions/%s/call_handling/%s"

\* the identifiers an invocation substitutes, in template order
PathParamsOf(op, params) ==
    CASE op = "DeleteAlert" -> <<params.AlertSettingID>>
      [] op = "UnassignPhoneNumbers" -> <<params.autoReceptionistId, params.phoneNumberId>>
      [] op = "DeleteCallHandling" -> <<params.ExtensionId, params.SettingType>>

\* how one character is escaped in a path segment
PathEscapeChar(c) ==
    CASE c = " " -> "%20"
      [] c = "%" -> "%25"
      [] c = "/" -> "%2F"
      [] c = "?" -> "%3F"
      [] OTHER -> c

RECURSIVE PathEscape(_)
\* an identifier percent-escaped for one path segment
PathEscape(s) ==
    IF s = "" THEN ""
    ELSE PathEscapeChar(Char(s, 1)) \o PathEscape(SubSeq(s, 2, Len(s)))

\* C13: whatever characters an identifier holds, the path handed to
\* client.request has as many segments as its template, the fixed segments
\* are the template's, and each identifier fills exactly the one segment of
\* its placeholder.
C13_PathParamsEscaped ==
    (last.op \in {"DeleteAlert", "UnassignPhoneNumbers", "DeleteCallHandling"}
       /\ last.ret.calls # <<>>) =>
        LET t == Split(PathTemplate(last.op), "/")
            p == Split(last.ret.calls[1].path, "/")
            ids == PathParamsOf(last.op, last.args[1])
            holes == SelectSeq([i \in 1..Len(t) |-> i], LAMBDA i : t[i] = "%s")
        IN  /\ Len(p) = Len(t)
            /\ \A i \in 1..Len(t) : t[i] # "%s" => p[i] = t[i]
            /\ \A k \in 1..Len(holes) : p[holes[k]] \in {ids[k], PathEscape(ids[k])}

\* a caller's method has returned
Returned(g) == goroutines[g].pc = "done"

\* C14: endpoint methods running at the same time on one service value write
\* nothing they share (the service's fields with the client reference, the
\* recognized setting names), and each call returns what it returns when it
\* runs alone, however the steps of the calls interleave.
C14_ConcurrentCallsIndependent ==
    /\ service = NewPhoneService
    /\ availableSettingTypes = AvailableSettingTypes
    /\ \A g \in Goroutines : Returned(g) => goroutines[g].ret = goroutines[g].solo

\* two overlapping GetAccountSettings calls returned, one rejected and one
\* dispatched, each as it would alone
C14_Witness ==
    /\ \A g \in Goroutines : Returned(g) /\ goroutines[g].op = "GetAccountSettings"
    /\ goroutines[2].concurrent
    /\ IsValidationError(goroutines[1].ret.err)
    /\ goroutines[1].ret.evaluated = 2
    /\ Len(goroutines[2].ret.calls) = 1
    /\ \A g \in Goroutines : goroutines[g].ret = goroutines[g].solo

\* C15: the checks have no side effect: whether they pass or fail, the
\* request the caller passed (the identifier collection, the SettingTypes
\* string) is afterwards as it was passed, and the recognized setting names
\* are as they were declared.
C15_ValidationLeavesInputsUnchanged ==
    /\ availableSettingTypes = AvailableSettingTypes
    /\ \A g \in Goroutines :
          goroutines[g].pc # "idle" => goroutines[g].req = goroutines[g].passed

\* a settings filter passed its checks and an oversized batch failed its
\* check, and both requests are as they were passed
C15_Witness ==
    /\ Returned(1) /\ Returned(2)
    /\ goroutines[1].op = "GetAccountSettings"
    /\ goroutines[1].passed # Nil
    /\ goroutines[1].passed.SettingTypes = " call_park ,sms"
    /\ Len(goroutines[1].ret.calls) = 1
    /\ goroutines[1].req = goroutines[1].passed
    /\ goroutines[2].op = "AddCustomizedNumbers"
    /\ IsValidationError(goroutines[2].ret.err)
    /\ goroutines[2].req = goroutines[2].passed
    /\ Len(goroutines[2].req.PhoneNumberIDs) = BatchLimit + 1

\* the parameter names of the fields a request type declares itself, its
\* embedded group left aside
DirectKeys(struct) ==
    LET tags == UrlTags(struct)
    IN  {KeyOf(tags[i]) : i \in {j \in 1..Len(tags) : tags[j].kind # "embedded"}}

\* the key=value pairs the fields of a PaginationOptions value stand for: one
\* per field that is not zero, under the field's own name
GroupPairs(po) ==
    IF po = Nil THEN {}
    ELSE {[key |-> KeyOf(PaginationOptionsTags[i]),
           value |-> ValueString(PaginationOptionsTags[i].kind, po[PaginationOptionsTags[i].field])] :
            i \in {j \in 1..Len(PaginationOptionsTags) :
                     ~IsEmptyValue(PaginationOptionsTags[j].kind, po[PaginationOptionsTags[j].field])}}

\* C16: on each of the four list endpoints the query string holds, beside the
\* request's own fields, exactly the non-zero fields of the embedded
\* PaginationOptions under their own names: nothing when the group is absent
\* or zero-valued, and never a nested or prefixed key.
C16_PaginationFlattened ==
    (last.op \in PagedEndpoints /\ LastSentQuery) =>
        LET call == last.ret.calls[1]
            pairs == ParseQuery(call.rawQuery)
            sent == {pairs[i] : i \in 1..Len(pairs)}
            group == GroupPairs(call.query.PaginationOptions)
        IN  /\ group \subseteq sent
            /\ KeysSent(call) \subseteq DirectKeys(call.query.struct) \cup {p.key : p \in group}

\* the query value of the last call, read back from the query string sent
LastQueryReadBack ==
    LET call == last.ret.calls[1]
    IN  DecodeQuery(call.query.struct, ParseQuery(call.rawQuery))

ZeroGroup == [PageSize |-> 0, NextPageToken |-> "", PageNumber |-> 0]

\* a query value with a zero-valued embedded group taken as an absent one
AbsentIfZero(v) ==
    IF "PaginationOptions" \in DOMAIN v
    THEN (IF v.PaginationOptions = ZeroGroup THEN [v EXCEPT !.PaginationOptions = Nil] ELSE v)
    ELSE v

IsUpper(c) == LowerChar(c) # c

\* whether a character is a lower-case letter
IsLower(c) == \E i \in 1..26 : Char("abcdefghijklmnopqrstuvwxyz", i) = c

\* the response key that names the setting of a Go field: the field's name
\* in lower case, its words joined by '_' (an acronym is one word)
SnakeCase(name) ==
    LET piece(i) ==
            LET c == Char(name, i)
                wordStart ==
                    /\ i > 1
                    /\ IsUpper(c)
                    /\ \/ IsLower(Char(name, i - 1))
                       \/ IsUpper(Char(name, i - 1)) /\ i < Len(name) /\ IsLower(Char(name, i + 1))
            IN  (IF wordStart THEN "_" ELSE "") \o LowerChar(c)
        join[i \in 0..Len(name)] == IF i = 0 THEN "" ELSE join[i - 1] \o piece(i)
    IN  join[Len(name)]

\* C18: a settings read decodes each setting field from the response key
\* that names the same setting: no two fields share a key, a field whose
\* setting is in the body holds that setting's value, and in particular
\* personal_audio_library fills PersonalAudioLibrary and
\* restricted_call_hours fills RestrictedCallHours.
C18_SettingsDecodedByName ==
    (last.op = "GetAccountSettings" /\ last.ret.err = NoError /\ last.ret.out # NoOut) =>
        LET out == last.ret.out.fields
            body == AccountSettingsBody(last.ret.calls[1].query)
        IN  /\ \A i, j \in 1..Len(AccountSettingsJSONTags) :
                  AccountSettingsJSONTags[i].key = AccountSettingsJSONTags[j].key => i = j
            /\ \A f \in DOMAIN out : SnakeCase(f) \in DOMAIN body => out[f] = body[SnakeCase(f)]
            /\ "personal_audio_library" \in DOMAIN body
                  => out.PersonalAudioLibrary = body["personal_audio_library"]
            /\ "restricted_call_hours" \in DOMAIN body
                  => out.RestrictedCallHours = body["restricted_call_hours"]

\* what client.request returned to the last invocation for the call it made
LastDispatch ==
    LET call == last.ret.calls[1]
    IN  request(last.ctx, call.method, call.path, call.query, call.body,
                IF last.op \in TypedEndpoints THEN ZeroOut ELSE NoOut, last.net)

\* C19: a method that fails its own check returns a nil response handle; a
\* method whose client.request call fails returns the very handle that call
\* returned, nil or not, and an error whose cause, reached by unwrapping, is
\* the error client.request returned.
C19_ResponseHandlePropagated ==
    (last.op # "none" /\ ~last.ret.panicked) =>
        /\ IsValidationError(last.ret.err) => last.ret.res = NilRes
        /\ last.ret.calls # <<>> =>
              /\ last.ret.res = LastDispatch.res
              /\ LastDispatch.err # NilErr =>
                    /\ last.ret.err.type = "wrapError"
                    /\ last.ret.err.cause = LastDispatch.err

\* DeleteBlockedList was refused by the service and handed the refusal's
\* response on with the wrapped APIError
C19_Witness ==
    /\ last.op = "DeleteBlockedList"
    /\ last.net = "status"
    /\ last.ret.res = "http400"
    /\ last.ret.err.type = "wrapError"
    /\ last.ret.err.cause.kind = "APIError"
    /\ last.ret.err.cause.status = 400

\* the positions of the entries of the last filter that are empty once trimmed
EmptyEntries == {k \in 1..Len(FilterEntries) : TrimSpace(FilterEntries[k]) = ""}

\* C20: GetAccountSettings rejects, without calling client.request, every
\* filter with an entry that is empty once trimmed: the empty filter, one of
\* white space only, one with a leading or trailing comma, one with two
\* adjacent commas.
C20_EmptyEntryRejected ==
    (LastIsSettingsRead /\ EmptyEntries # {}) =>
        /\ IsValidationError(last.ret.err)
        /\ last.ret.calls = <<>>
        /\ last.ret.res = NilRes
        /\ last.ret.out = NoOut
        /\ requestCalls = 0

\* a filter of recognized names with two adjacent commas was rejected at the
\* empty entry between them
C20_Witness ==
    /\ LastIsSettingsRead
    /\ last.args[1].SettingTypes = "sms,,call_park"
    /\ last.ret.evaluated = 2
    /\ last.ret.err.msg = "Error: invalid setting type ''"
    /\ last.ret.calls = <<>>

\* C21: when every entry of the filter passes the check, the query value
\* GetAccountSettings hands to client.request is the caller's, with the
\* SettingTypes string as the caller wrote it: the trimming done while
\* checking is not applied to what is sent.
C21_FilterSentAsWritten ==
    (LastIsSettingsRead /\ BadEntries = {}) =>
        /\ Len(last.ret.calls) = 1
        /\ last.ret.calls[1].query = last.args[1]
        /\ last.ret.calls[1].query.SettingTypes = last.args[1].SettingTypes
        /\ Len(last.ret.calls[1].query.SettingTypes) = Len(last.args[1].SettingTypes)

\* a filter that passes only because its entries are trimmed was sent with
\* its white space in place
C21_Witness ==
    /\ LastIsSettingsRead
    /\ last.args[1].SettingTypes = "sms, call_park"
    /\ " call_park" \notin RecognizedNames
    /\ Len(last.ret.calls) = 1
    /\ last.ret.calls[1].query.SettingTypes = "sms, call_park"

\* C22: AddCustomizedNumbers, DeleteCustomizedNumbers and GetAccountSettings
\* invoked with a nil request read a field through the nil pointer before any
\* check: the call panics, returning no error value, no response and no
\* output, without calling client.request, so the failure falls under none
\* of the four error kinds.
C22_NilRequestPanics ==
    (/\ last.op \in {"AddCustomizedNumbers", "DeleteCustomizedNumbers", "GetAccountSettings"}
     /\ last.args[1] = Nil)
        => /\ last.ret.panicked
           /\ last.ret.err = NoError
           /\ last.ret.res = NilRes
           /\ last.ret.out = NoOut
           /\ last.ret.calls = <<>>
           /\ last.ret.evaluated = 0
           /\ ErrorKindOf(last.ret) \notin ErrorKinds

\* GetAccountSettings was invoked with a nil query on a working network and
\* panicked before looking at any entry
C22_Witness ==
    /\ last.op = "GetAccountSettings"
    /\ last.args[1] = Nil
    /\ last.ctx = "live"
    /\ last.net = "ok"
    /\ last.ret.panicked
    /\ last.ret.calls = <<>>

=============================================================================
